---- MODULE Spec2Model ----
(***************************************************************************)
(* Transcript event-stream parsing, pattern detection and verification     *)
(* metrics of the cyborg repository:                                        *)
(*   src/src/analysis/extract_micro_examples.py       (events, detectors)   *)
(*   src/src/analysis/analyze_verification_patterns.py (counters, report)   *)
(*   src/src/advanced_analysis.py                     (aggregate report)    *)
(* Indices of events are the 0-based indices of the Python lists; a match   *)
(* is the tuple <<start, end>> the code appends.  Rates and scores are      *)
(* exact rationals <<numerator, denominator>>.                              *)
(***************************************************************************)
EXTENDS Integers, Sequences, FiniteSets, TLC

VARIABLES
  events,              \* extract_micro_examples: the session's list of ToolEvent
  dpc,                 \* detectors: "input" before they ran, "done" after
  cycles,              \* result of find_execute_explore_modify_cycles
  corrections,         \* result of find_correction_sequences
  retries,             \* result of find_bash_retry_sequences
  metrics,             \* VerificationAnalyzer.metrics (VerificationMetrics)
  session_metrics,     \* analyze_session: the session_metrics dict
  recent_tools,        \* analyze_session: recent_tools
  recent_bash_failed,  \* analyze_session: recent_bash_failed
  apc,                 \* analyzer: "idle", "session" (inside analyze_session), "reported"
  sessions,            \* run(): session_count
  report,              \* the dict _generate_report returned, NoReport before
  tools_dist,          \* advanced_analysis: data['aggregate']['tools_distribution']
  categorized,         \* get_tool_category of the names of tools_dist, once computed
  category_stats,      \* analyze_tool_sequencing: category_stats
  files,               \* run(): the list rglob returned, each file its name kind and lines
  fidx,                \* run(): number of files the loop has taken
  entries,             \* what parse_jsonl yielded for the last file analysed
  session_results,     \* the dicts analyze_session returned on this analyzer, in call order
  prev_report,         \* what the previous call of run() returned
  runs,                \* number of calls of run() started
  nread,               \* extract_tool_events: records parse_jsonl has yielded
  current_model,       \* extract_tool_events: current_model
  models_read,         \* the model field of each record yielded so far
  ipos,                \* items of the current record the inner loop has visited
  origins,             \* per event, the record and the item it was made from
  pending,             \* extract_tool_events: content items not yet visited
  xpc,                 \* extract_tool_events: "idle", "extract", "done", "raised"
  success_writes,      \* per event, how often events[-1].success = ... hit it
  corpus,              \* MicroExampleExtractor.run: the sessions' event lists
  all_sequences,       \* MicroExampleExtractor.run: all_sequences
  results,             \* the dict MicroExampleExtractor.run returned
  rpc,                 \* MicroExampleExtractor.run: "idle", "scan", "done"
  category_counts,     \* compute_weekly_delegation: one week's category counts
  delegation_score,    \* what compute_delegation_score returned for them
  scan,                \* find_execute_explore_modify_cycles: its locals i and cycles
  iterations           \* iterations of its while loop so far

runVars == <<files, fidx, entries, session_results, prev_report, runs>>
xtrVars == <<nread, current_model, models_read, ipos, origins, pending, xpc, success_writes>>
selVars == <<corpus, all_sequences, results, rpc>>
delVars == <<category_counts, delegation_score>>
extVars == <<runVars, xtrVars, selVars, delVars>>

vars == <<events, dpc, cycles, corrections, retries, scan, iterations, metrics, session_metrics,
          recent_tools, recent_bash_failed, apc, sessions, report,
          tools_dist, categorized, category_stats, extVars>>

loopVars == <<scan, iterations>>
detVars == <<events, dpc, cycles, corrections, retries, loopVars>>
anaVars == <<metrics, session_metrics, recent_tools, recent_bash_failed, apc, sessions, report>>
catVars == <<tools_dist, categorized, category_stats>>

----------------------------------------------------------------------------
(* Python values *)

\* Python's None (a missing file_path, a function falling off its end).
None == "None"

\* Truthiness of an optional string: None and "" are false.
Truthy(x) == x # None /\ x # ""

Min2(a, b) == IF a <= b THEN a ELSE b

\* min() of a non-empty set of integers: the first hit of a forward scan.
FirstIn(S) == CHOOSE x \in S : \A y \in S : x <= y

\* The elements of a finite set of integers in increasing order.
RECURSIVE SortedSeq(_)
SortedSeq(S) == IF S = {} THEN <<>> ELSE <<FirstIn(S)>> \o SortedSeq(S \ {FirstIn(S)})

\* The set of elements of a sequence.
Range(s) == {s[x] : x \in 1..Len(s)}

\* events[i] with the 0-based index of the Python list.
At(evs, i) == evs[i + 1]

----------------------------------------------------------------------------
(* Category table: extract_micro_examples.py, TOOL_CATEGORIES *)

\* The dict in insertion order: <<category, tools>>.
TOOL_CATEGORIES == <<
  <<"exploration",  {"Read", "Glob", "Grep", "WebSearch", "WebFetch", "LSP"}>>,
  <<"modification", {"Write", "Edit", "MultiEdit", "NotebookEdit"}>>,
  <<"execution",    {"Bash", "Task", "TaskOutput", "KillShell"}>>,
  <<"planning",     {"TodoWrite", "EnterPlanMode", "ExitPlanMode"}>>,
  <<"interaction",  {"AskUserQuestion"}>> >>

\* A plausible slip: no fallback after the loop, the function returns None.
get_tool_category_nofallback(tool_name) ==
  LET hit == {c \in 1..Len(TOOL_CATEGORIES) : tool_name \in TOOL_CATEGORIES[c][2]}
  IN IF hit = {} THEN None ELSE TOOL_CATEGORIES[FirstIn(hit)][1]

\* for category, tools in TOOL_CATEGORIES.items(): first list holding the name.
get_tool_category(tool_name) ==
  LET hit == {c \in 1..Len(TOOL_CATEGORIES) : tool_name \in TOOL_CATEGORIES[c][2]}
  IN IF hit = {} THEN "other" ELSE TOOL_CATEGORIES[FirstIn(hit)][1]

\* ToolEvent(...) as extract_tool_events builds it; success is the value the
\* last tool_result left (True when none came).
ToolEvent(tool_name, file_path, success) ==
  [tool_name |-> tool_name, category |-> get_tool_category(tool_name),
   success |-> success, model |-> None, file_path |-> file_path]

----------------------------------------------------------------------------
(* Pattern detectors: extract_micro_examples.py *)

\* range(i + 1, min(i + 5, len(events))): the exploration window.
ExploreWindow == 5
\* range(j + 1, min(j + 5, len(events))): the modification window.
ModifyWindow == 5
\* indices[j + 1] - indices[j] <= 10
CorrectionDistance == 10
\* range(i + 1, min(i + 5, len(events))): the retry window.
RetryWindow == 5

\* A plausible slip: the modification window one event too wide.
EEMStepWide(evs, st) ==
  LET n  == Len(evs)
      i  == st.i
      js == {j \in (i + 1)..(Min2(i + ExploreWindow, n) - 1) :
               At(evs, j).category = "exploration"}
      ks == {k \in (FirstIn(js) + 1)..(Min2(FirstIn(js) + ModifyWindow + 1, n) - 1) :
               At(evs, k).category = "modification"}
  IN IF At(evs, i).category = "execution" /\ js # {} /\ ks # {}
     THEN [i |-> FirstIn(ks) + 1, cycles |-> Append(st.cycles, <<i, FirstIn(ks) + 1>>)]
     ELSE [i |-> i + 1, cycles |-> st.cycles]

\* A plausible slip: the exploration window one event too narrow.
EEMStepNarrow(evs, st) ==
  LET n  == Len(evs)
      i  == st.i
      js == {j \in (i + 1)..(Min2(i + ExploreWindow - 1, n) - 1) :
               At(evs, j).category = "exploration"}
      ks == {k \in (FirstIn(js) + 1)..(Min2(FirstIn(js) + ModifyWindow, n) - 1) :
               At(evs, k).category = "modification"}
  IN IF At(evs, i).category = "execution" /\ js # {} /\ ks # {}
     THEN [i |-> FirstIn(ks) + 1, cycles |-> Append(st.cycles, <<i, FirstIn(ks) + 1>>)]
     ELSE [i |-> i + 1, cycles |-> st.cycles]

\* A plausible slip: i = k is missing, the scan resumes at i + 1 after a match.
EEMStepNoSkip(evs, st) ==
  LET n  == Len(evs)
      i  == st.i
      js == {j \in (i + 1)..(Min2(i + ExploreWindow, n) - 1) :
               At(evs, j).category = "exploration"}
      ks == {k \in (FirstIn(js) + 1)..(Min2(FirstIn(js) + ModifyWindow, n) - 1) :
               At(evs, k).category = "modification"}
  IN IF At(evs, i).category = "execution" /\ js # {} /\ ks # {}
     THEN [i |-> i + 1, cycles |-> Append(st.cycles, <<i, FirstIn(ks) + 1>>)]
     ELSE [i |-> i + 1, cycles |-> st.cycles]

\* A plausible slip: after a match the loop continues without i = k and
\* without i += 1, the index stays at the start of the match.
EEMStepNoProgress(evs, st) ==
  LET n  == Len(evs)
      i  == st.i
      js == {j \in (i + 1)..(Min2(i + ExploreWindow, n) - 1) :
               At(evs, j).category = "exploration"}
      ks == {k \in (FirstIn(js) + 1)..(Min2(FirstIn(js) + ModifyWindow, n) - 1) :
               At(evs, k).category = "modification"}
  IN IF At(evs, i).category = "execution" /\ js # {} /\ ks # {}
     THEN [i |-> i, cycles |-> Append(st.cycles, <<i, FirstIn(ks) + 1>>)]
     ELSE [i |-> i + 1, cycles |-> st.cycles]

\* One iteration of the while loop of find_execute_explore_modify_cycles, from
\* the loop state st = [i, cycles] (the guard i < len(events) - 2 holds).
\* Only the first exploration event of the window is tried (the outer break);
\* on a match i = k and then i += 1.
EEMStep(evs, st) ==
  LET n  == Len(evs)
      i  == st.i
      js == {j \in (i + 1)..(Min2(i + ExploreWindow, n) - 1) :
               At(evs, j).category = "exploration"}
      ks == {k \in (FirstIn(js) + 1)..(Min2(FirstIn(js) + ModifyWindow, n) - 1) :
               At(evs, k).category = "modification"}
  IN IF At(evs, i).category = "execution" /\ js # {} /\ ks # {}
     THEN [i |-> FirstIn(ks) + 1, cycles |-> Append(st.cycles, <<i, FirstIn(ks) + 1>>)]
     ELSE [i |-> i + 1, cycles |-> st.cycles]

RECURSIVE EEMLoop(_, _)
EEMLoop(evs, st) ==
  IF st.i < Len(evs) - 2 THEN EEMLoop(evs, EEMStep(evs, st)) ELSE st.cycles

find_execute_explore_modify_cycles(evs) == EEMLoop(evs, [i |-> 0, cycles |-> <<>>])

\* file_edits[p]: the indices of the modification events with file_path p.
FileEdits(evs, p) ==
  {i \in 0..(Len(evs) - 1) :
     /\ At(evs, i).category = "modification"
     /\ Truthy(At(evs, i).file_path)
     /\ At(evs, i).file_path = p}

\* The keys of file_edits in insertion order (order of first edit).
FileEditKeys(evs) ==
  LET firsts == {i \in 0..(Len(evs) - 1) :
                   /\ FileEdits(evs, At(evs, i).file_path) # {}
                   /\ i = FirstIn(FileEdits(evs, At(evs, i).file_path))}
      order  == SortedSeq(firsts)
  IN [x \in 1..Len(order) |-> At(evs, order[x]).file_path]

\* A plausible slip: every pair of successive edits of a file, whatever the distance.
AdjacentPairsAnyDistance(indices) ==
  LET close == {j \in 1..(Len(indices) - 1) : TRUE}
      order == SortedSeq(close)
  IN [x \in 1..Len(order) |-> <<indices[order[x]], indices[order[x] + 1] + 1>>]

\* for j in range(len(indices) - 1): the adjacent pairs at distance <= 10.
AdjacentPairs(indices) ==
  LET close == {j \in 1..(Len(indices) - 1) :
                  indices[j + 1] - indices[j] <= CorrectionDistance}
      order == SortedSeq(close)
  IN [x \in 1..Len(order) |-> <<indices[order[x]], indices[order[x] + 1] + 1>>]

RECURSIVE CorrectionsOf(_, _)
CorrectionsOf(evs, keys) ==
  IF keys = <<>> THEN <<>>
  ELSE AdjacentPairs(SortedSeq(FileEdits(evs, Head(keys)))) \o CorrectionsOf(evs, Tail(keys))

find_correction_sequences(evs) == CorrectionsOf(evs, FileEditKeys(evs))

\* A plausible slip: the window one event too wide.
RetryOfWide(evs, i) ==
  LET js == {j \in (i + 1)..(Min2(i + RetryWindow + 1, Len(evs)) - 1) :
               At(evs, j).tool_name = "Bash"}
  IN IF At(evs, i).tool_name = "Bash" /\ ~At(evs, i).success /\ js # {}
     THEN << <<i, FirstIn(js) + 1>> >> ELSE <<>>

\* The body of the for loop of find_bash_retry_sequences at index i: what it
\* appends to retries.
RetryOf(evs, i) ==
  LET js == {j \in (i + 1)..(Min2(i + RetryWindow, Len(evs)) - 1) :
               At(evs, j).tool_name = "Bash"}
  IN IF At(evs, i).tool_name = "Bash" /\ ~At(evs, i).success /\ js # {}
     THEN << <<i, FirstIn(js) + 1>> >> ELSE <<>>

RECURSIVE RetriesFrom(_, _)
RetriesFrom(evs, i) ==
  IF i >= Len(evs) THEN <<>> ELSE RetryOf(evs, i) \o RetriesFrom(evs, i + 1)

find_bash_retry_sequences(evs) == RetriesFrom(evs, 0)

----------------------------------------------------------------------------
(* Inputs of the detectors: event lists as extract_tool_events leaves them *)

EvBashFail == ToolEvent("Bash", None, FALSE)
EvBashOk   == ToolEvent("Bash", None, TRUE)
EvRead     == ToolEvent("Read", "a.py", TRUE)
EvEditA    == ToolEvent("Edit", "a.py", TRUE)
EvWriteB   == ToolEvent("Write", "b.py", TRUE)
EvEditNone == ToolEvent("Edit", None, TRUE)
EvOther    == ToolEvent("Skill", None, TRUE)

\* Longest event list of each family of inputs.
MaxEEMLen  == 7
MaxBashLen == 7
MaxCorrLen == 12
MaxCorrMods == 3
MaxDetLen  == 6

\* events is a list of at most n events of the set A.
SeqsUpTo(A, n) == \E m \in 0..n : events \in [1..m -> A]

\* events is a list of Read events with at most MaxCorrMods modification
\* events placed in it: long enough for two edits 11 events apart.
CorrInputs ==
  \E m \in 0..MaxCorrLen :
    \E P \in {Q \in SUBSET (1..m) : Cardinality(Q) <= MaxCorrMods} :
      \E f \in [P -> {EvEditA, EvWriteB, EvEditNone}] :
        events = [x \in 1..m |-> IF x \in P THEN f[x] ELSE EvRead]

NoReport == [kind |-> "none"]
NoStats  == [kind |-> "none"]
ZeroMetrics ==
  [total_tool_uses |-> 0, tool_errors |-> 0, bash_failures |-> 0, bash_retries |-> 0,
   consecutive_edits_same_file |-> 0, user_rejection_messages |-> 0,
   total_user_messages |-> 0]
ZeroSession ==
  [tool_uses |-> 0, tool_errors |-> 0, bash_failures |-> 0, bash_retries |-> 0,
   consecutive_edits |-> 0, user_rejections |-> 0, user_messages |-> 0]

\* The variables of the analyzer, before any session.
AnaIdle ==
  /\ metrics = ZeroMetrics
  /\ session_metrics = ZeroSession
  /\ recent_tools = <<>>
  /\ recent_bash_failed = FALSE
  /\ apc = "idle"
  /\ sessions = 0
  /\ report = NoReport

\* The variables of the aggregate report, before any input.
CatIdle ==
  /\ tools_dist = <<>>
  /\ categorized = [kind |-> "none"]
  /\ category_stats = NoStats

\* The variables of the detectors, before any input.
DetIdle ==
  /\ events = <<>>
  /\ dpc = "idle"
  /\ cycles = <<>>
  /\ corrections = <<>>
  /\ retries = <<>>
  /\ scan = [i |-> 0, cycles |-> <<>>]
  /\ iterations = 0

\* Nothing set for run(), one call of run() under way.
RunIdle ==
  /\ files = <<>>
  /\ fidx = 0
  /\ entries = <<>>
  /\ session_results = <<>>
  /\ prev_report = NoReport
  /\ runs = 1

\* extract_tool_events not called.
XtrIdle ==
  /\ nread = 0
  /\ current_model = None
  /\ models_read = <<>>
  /\ ipos = 0
  /\ origins = <<>>
  /\ pending = <<>>
  /\ xpc = "idle"
  /\ success_writes = <<>>

\* MicroExampleExtractor.run not called.
SelIdle ==
  /\ corpus = <<>>
  /\ all_sequences = <<>>
  /\ results = [kind |-> "none"]
  /\ rpc = "idle"

\* compute_delegation_score not called.
DelIdle ==
  /\ category_counts = <<>>
  /\ delegation_score = [kind |-> "none"]

\* The state before the detectors run on the session's events.
DetInput ==
  /\ dpc = "input"
  /\ cycles = <<>>
  /\ corrections = <<>>
  /\ retries = <<>>
  /\ scan = [i |-> 0, cycles |-> <<>>]
  /\ iterations = 0
  /\ AnaIdle
  /\ CatIdle
  /\ RunIdle /\ XtrIdle /\ SelIdle /\ DelIdle

\* The three detectors applied to the session's events (process_session,
\* "Find patterns"), each a pure function of events.
Detect ==
  /\ dpc = "input"
  /\ cycles' = find_execute_explore_modify_cycles(events)
  /\ corrections' = find_correction_sequences(events)
  /\ retries' = find_bash_retry_sequences(events)
  /\ dpc' = "done"
  /\ UNCHANGED <<events, loopVars, anaVars, catVars, extVars>>

DetNext == Detect

InitEEM  == SeqsUpTo({EvBashOk, EvRead, EvEditA, EvOther}, MaxEEMLen) /\ DetInput
SpecEEM  == InitEEM /\ [][DetNext]_vars

InitBash == SeqsUpTo({EvBashFail, EvBashOk, EvRead}, MaxBashLen) /\ DetInput
SpecBash == InitBash /\ [][DetNext]_vars

InitCorr == CorrInputs /\ DetInput
SpecCorr == InitCorr /\ [][DetNext]_vars

InitDet  == SeqsUpTo({EvBashFail, EvBashOk, EvRead, EvEditA, EvWriteB}, MaxDetLen) /\ DetInput
SpecDet  == InitDet /\ [][DetNext]_vars

----------------------------------------------------------------------------
(* Verification metrics: analyze_verification_patterns.py *)

\* Exact rationals <<numerator, denominator>>, denominator > 0, kept in
\* lowest terms.
RECURSIVE Gcd(_, _)
Gcd(a, b) == IF b = 0 THEN a ELSE Gcd(b, a % b)
Abs(a) == IF a < 0 THEN 0 - a ELSE a
RNorm(a) == LET g == Gcd(Abs(a[1]), a[2]) IN <<a[1] \div g, a[2] \div g>>
RAdd(a, b) == RNorm(<<a[1] * b[2] + b[1] * a[2], a[2] * b[2]>>)
RSub(a, b) == RNorm(<<a[1] * b[2] - b[1] * a[2], a[2] * b[2]>>)
RMul(a, b) == RNorm(<<a[1] * b[1], a[2] * b[2]>>)
RLt(a, b)  == a[1] * b[2] < b[1] * a[2]
REq(a, b)  == a[1] * b[2] = b[1] * a[2]

\* round(x * scale) of a rational x, halves to the even neighbour; the result
\* counts units of 1/scale (round(score, 4) is RoundTo(score, 10000)).
RoundTo(a, scale) ==
  LET num == a[1] * scale
      q   == num \div a[2]
      r2  == 2 * (num % a[2])
  IN IF r2 < a[2] THEN q
     ELSE IF r2 > a[2] THEN q + 1
     ELSE IF q % 2 = 0 THEN q ELSE q + 1

\* VerificationMetrics: the derived rates, 0 when the denominator is 0.
error_rate(m) ==
  IF m.total_tool_uses > 0 THEN <<m.tool_errors, m.total_tool_uses>> ELSE <<0, 1>>
bash_failure_rate(m) ==
  IF m.total_tool_uses > 0 THEN <<m.bash_failures, m.total_tool_uses>> ELSE <<0, 1>>
correction_rate(m) ==
  IF m.total_tool_uses > 0 THEN <<m.consecutive_edits_same_file, m.total_tool_uses>>
  ELSE <<0, 1>>
user_rejection_rate(m) ==
  IF m.total_user_messages > 0 THEN <<m.user_rejection_messages, m.total_user_messages>>
  ELSE <<0, 1>>

\* REJECTION_KEYWORDS: each \b...\b pattern as the words it has to match.
REJECTION_KEYWORDS == <<
  <<"no">>, <<"wrong">>, <<"incorrect">>, <<"try", "again">>, <<"fix">>, <<"undo">>,
  <<"revert">>, <<"not", "what", "i">>, <<"that's", "not">>, <<"actually">>,
  <<"instead">>, <<"don't">>, <<"stop">>, <<"cancel">>, <<"error">>, <<"failed">>,
  <<"broke">> >>

\* str.lower() on a word.
Lower(w) ==
  CASE w = "No" -> "no"
    [] w = "WRONG" -> "wrong"
    [] OTHER -> w

\* re.search(pattern, text): the pattern's words at some position of the text.
Search(pattern, text) ==
  \E at \in 0..(Len(text) - Len(pattern)) :
    \A x \in 1..Len(pattern) : text[at + x] = pattern[x]

\* _contains_rejection: True at the first pattern found.
contains_rejection(text) ==
  LET text_lower == [x \in 1..Len(text) |-> Lower(text[x])]
  IN \E p \in 1..Len(REJECTION_KEYWORDS) : Search(REJECTION_KEYWORDS[p], text_lower)

\* Content items of a record.
TextItem(words)     == [type |-> "text", text |-> words, is_error |-> FALSE]
ToolResultItem(err) == [type |-> "tool_result", text |-> <<>>, is_error |-> err]

\* _extract_text of a list content: the text blocks joined by " ".
RECURSIVE extract_text(_)
extract_text(content) ==
  IF content = <<>> THEN <<>>
  ELSE (IF Head(content).type = "text" THEN Head(content).text ELSE <<>>)
         \o extract_text(Tail(content))

\* tool_name in ["Edit", "Write", "MultiEdit"]
EditTools == {"Edit", "Write", "MultiEdit"}

\* recent_tools[-5:]
RecentLookback == 5

\* A plausible slip: the whole of recent_tools is searched, not its last 5.
IsImmediateCorrectionNoWindow(recent, tool_name, file_path_val) ==
  /\ tool_name \in EditTools
  /\ Truthy(file_path_val)
  /\ \E x \in 1..Len(recent) :
       /\ recent[x][1] \in EditTools
       /\ recent[x][2] = file_path_val

\* reversed(recent_tools[-5:]) holds an edit of the same path.
IsImmediateCorrection(recent, tool_name, file_path_val) ==
  /\ tool_name \in EditTools
  /\ Truthy(file_path_val)
  /\ \E x \in 1..Len(recent) :
       /\ x > Len(recent) - RecentLookback
       /\ recent[x][1] \in EditTools
       /\ recent[x][2] = file_path_val

\* Inputs of the analyzer.
MaxSessions == 2
MaxToolUses == 3
MaxErrors   == 2
MaxUserMsgs == 2

UserContents == {
  <<>>,
  << TextItem(<<"looks", "good">>) >>,
  << TextItem(<<"No">>) >>,
  << TextItem(<<"no", "that", "is", "wrong">>) >>,
  << TextItem(<<"try">>), TextItem(<<"again">>) >>,
  << ToolResultItem(TRUE) >> }

ToolUses == {
  <<"Bash", None>>, <<"Read", "a.py">>, <<"Edit", "a.py">>, <<"Write", "a.py">>,
  <<"Edit", None>> }

\* analyze_session is entered: its locals are initialised.
BeginSession ==
  /\ apc = "idle"
  /\ sessions < MaxSessions
  /\ session_metrics' = ZeroSession
  /\ recent_tools' = <<>>
  /\ recent_bash_failed' = FALSE
  /\ apc' = "session"
  /\ UNCHANGED <<metrics, sessions, report, detVars, catVars, extVars>>

\* A plausible slip: a message counts once for every pattern it matches.
UserRecordPerPattern(content) ==
  /\ apc = "session"
  /\ metrics.total_user_messages < MaxUserMsgs
  /\ LET text == extract_text(content)
         add  == Cardinality({p \in 1..Len(REJECTION_KEYWORDS) :
                   Search(REJECTION_KEYWORDS[p], [x \in 1..Len(text) |-> Lower(text[x])])})
     IN /\ session_metrics' =
             [session_metrics EXCEPT !.user_messages = @ + 1,
                                     !.user_rejections = @ + add]
        /\ metrics' =
             [metrics EXCEPT !.total_user_messages = @ + 1,
                             !.user_rejection_messages = @ + add]
  /\ UNCHANGED <<recent_tools, recent_bash_failed, apc, sessions, report,
                 detVars, catVars, extVars>>

\* A record with role == "user".
UserRecord(content) ==
  /\ apc = "session"
  /\ metrics.total_user_messages < MaxUserMsgs
  /\ LET rejected == contains_rejection(extract_text(content))
         add      == IF rejected THEN 1 ELSE 0
     IN /\ session_metrics' =
             [session_metrics EXCEPT !.user_messages = @ + 1,
                                     !.user_rejections = @ + add]
        /\ metrics' =
             [metrics EXCEPT !.total_user_messages = @ + 1,
                             !.user_rejection_messages = @ + add]
  /\ UNCHANGED <<recent_tools, recent_bash_failed, apc, sessions, report,
                 detVars, catVars, extVars>>

\* A tool_use item counted as a retry after every earlier Bash failure of the
\* session: recent_bash_failed is never cleared.
ToolUseKeepsFlag(tool_name, file_path_val) ==
  /\ apc = "session"
  /\ metrics.total_tool_uses < MaxToolUses
  /\ LET retry == tool_name = "Bash" /\ recent_bash_failed
         corr  == IsImmediateCorrection(recent_tools, tool_name, file_path_val)
         r     == IF retry THEN 1 ELSE 0
         c     == IF corr THEN 1 ELSE 0
     IN /\ session_metrics' =
             [session_metrics EXCEPT !.tool_uses = @ + 1,
                                     !.bash_retries = @ + r,
                                     !.consecutive_edits = @ + c]
        /\ metrics' =
             [metrics EXCEPT !.total_tool_uses = @ + 1,
                             !.bash_retries = @ + r,
                             !.consecutive_edits_same_file = @ + c]
        /\ recent_bash_failed' = recent_bash_failed
  /\ recent_tools' =
       Append(recent_tools, <<tool_name, file_path_val, TRUE, Len(recent_tools)>>)
  /\ UNCHANGED <<apc, sessions, report, detVars, catVars, extVars>>

\* A tool_use item of a record with role == "assistant".
ToolUse(tool_name, file_path_val) ==
  /\ apc = "session"
  /\ metrics.total_tool_uses < MaxToolUses
  /\ LET retry == tool_name = "Bash" /\ recent_bash_failed
         corr  == IsImmediateCorrection(recent_tools, tool_name, file_path_val)
         r     == IF retry THEN 1 ELSE 0
         c     == IF corr THEN 1 ELSE 0
     IN /\ session_metrics' =
             [session_metrics EXCEPT !.tool_uses = @ + 1,
                                     !.bash_retries = @ + r,
                                     !.consecutive_edits = @ + c]
        /\ metrics' =
             [metrics EXCEPT !.total_tool_uses = @ + 1,
                             !.bash_retries = @ + r,
                             !.consecutive_edits_same_file = @ + c]
        /\ recent_bash_failed' = IF retry THEN FALSE ELSE recent_bash_failed
  /\ recent_tools' =
       Append(recent_tools, <<tool_name, file_path_val, TRUE, Len(recent_tools)>>)
  /\ UNCHANGED <<apc, sessions, report, detVars, catVars, extVars>>

\* A tool_result item of a record with role == "assistant".
ToolResult(is_error) ==
  /\ apc = "session"
  /\ metrics.tool_errors < MaxErrors
  /\ LET bash == /\ recent_tools # <<>>
                 /\ recent_tools[Len(recent_tools)][1] = "Bash"
         e    == IF is_error THEN 1 ELSE 0
         b    == IF is_error /\ bash THEN 1 ELSE 0
     IN /\ session_metrics' =
             [session_metrics EXCEPT !.tool_errors = @ + e, !.bash_failures = @ + b]
        /\ metrics' =
             [metrics EXCEPT !.tool_errors = @ + e, !.bash_failures = @ + b]
        /\ recent_bash_failed' = IF is_error /\ bash THEN TRUE ELSE recent_bash_failed
  /\ UNCHANGED <<recent_tools, apc, sessions, report, detVars, catVars, extVars>>

\* analyze_session returns session_metrics, its other locals are gone; run()
\* counts the session.
EndSession ==
  /\ apc = "session"
  /\ apc' = "idle"
  /\ sessions' = sessions + 1
  /\ recent_tools' = <<>>
  /\ recent_bash_failed' = FALSE
  /\ UNCHANGED <<metrics, session_metrics, report, detVars, catVars, extVars>>

\* The weights of verification_score.
ErrorWeight      == <<3, 10>>
CorrectionWeight == <<4, 10>>
RejectionWeight  == <<3, 10>>

\* The thresholds of the interpretation bands.
Pct(n) == <<n, 100>>

\* A plausible slip: the bands closed at their lower end, like the
\* verification bands.
interpret_endorsement_ge(score) ==
  IF ~RLt(score, Pct(95)) THEN "Very high automatic endorsement"
  ELSE IF ~RLt(score, Pct(90)) THEN "High automatic endorsement"
  ELSE IF ~RLt(score, Pct(80)) THEN "Moderate automatic endorsement"
  ELSE "Low automatic endorsement"

interpret_verification(score) ==
  IF RLt(score, Pct(5)) THEN "Minimal verification behavior - high automatic endorsement"
  ELSE IF RLt(score, Pct(10))
    THEN "Low verification behavior - substantial automatic endorsement"
  ELSE IF RLt(score, Pct(20))
    THEN "Moderate verification behavior - mixed endorsement pattern"
  ELSE "High verification behavior - skeptical endorsement pattern"

interpret_endorsement(score) ==
  IF RLt(Pct(95), score) THEN "Very high automatic endorsement"
  ELSE IF RLt(Pct(90), score) THEN "High automatic endorsement"
  ELSE IF RLt(Pct(80), score) THEN "Moderate automatic endorsement"
  ELSE "Low automatic endorsement"

\* A plausible slip: the weights of errors and corrections exchanged.
verification_score_swapped(m) ==
  RAdd(RAdd(RMul(error_rate(m), CorrectionWeight),
            RMul(correction_rate(m), ErrorWeight)),
       RMul(user_rejection_rate(m), RejectionWeight))

\* verification_score of _generate_report.
verification_score(m) ==
  RAdd(RAdd(RMul(error_rate(m), ErrorWeight),
            RMul(correction_rate(m), CorrectionWeight)),
       RMul(user_rejection_rate(m), RejectionWeight))

\* endorsement_proxy = 1 - verification_score
endorsement_proxy(v) == RSub(<<1, 1>>, v)

\* The dict _generate_report returns (timestamp, examples and the finding
\* text left out); verification_score and endorsement_proxy are its two
\* locals, the rounded values are what the dict holds.  The scores are the
\* exact values of the formulas: the program computes them in binary64, whose
\* rounding can put a score on the other side of a threshold it equals in
\* exact arithmetic (0.3 * (1 / 3) is 0.09999999999999999).
generate_report(m) ==
  LET v == verification_score(m)
      e == endorsement_proxy(v)
  IN [kind |-> "report",
      raw_metrics |-> m,
      rates |-> [tool_error_rate     |-> RoundTo(RMul(error_rate(m), <<100, 1>>), 100),
                 bash_failure_rate   |-> RoundTo(RMul(bash_failure_rate(m), <<100, 1>>), 100),
                 correction_rate     |-> RoundTo(RMul(correction_rate(m), <<100, 1>>), 100),
                 user_rejection_rate |-> RoundTo(RMul(user_rejection_rate(m), <<100, 1>>), 100)],
      derived_metrics |-> [verification_score |-> RoundTo(v, 10000),
                           endorsement_proxy  |-> RoundTo(e, 10000)],
      verification_score |-> v,
      endorsement_proxy  |-> e,
      interpretation |-> [verification_behavior |-> interpret_verification(v),
                          endorsement_level     |-> interpret_endorsement(e)]]

\* run() after its loop over the files: return self._generate_report().
GenerateReport ==
  /\ apc = "idle"
  /\ fidx = Len(files)
  /\ report' = generate_report(metrics)
  /\ apc' = "reported"
  /\ UNCHANGED <<metrics, session_metrics, recent_tools, recent_bash_failed, sessions,
                 detVars, catVars, extVars>>

Init ==
  /\ AnaIdle
  /\ DetIdle
  /\ CatIdle
  /\ RunIdle /\ XtrIdle /\ SelIdle /\ DelIdle

Next ==
  \/ BeginSession
  \/ \E content \in UserContents : UserRecord(content)
  \/ \E t \in ToolUses : ToolUse(t[1], t[2])
  \/ \E is_error \in BOOLEAN : ToolResult(is_error)
  \/ EndSession
  \/ GenerateReport

Spec == Init /\ [][Next]_vars

\* _generate_report as a function of the counters: every combination of
\* counters within the bounds that analyze_session can leave.
MaxReportUses       == 20
MaxReportErrors     == 2
MaxReportEdits      == 2
MaxReportUserMsgs   == 5
MaxReportRejections == 2

MetricInputs ==
  { m \in [total_tool_uses : 0..MaxReportUses,
           tool_errors : 0..MaxReportErrors,
           bash_failures : 0..MaxReportErrors,
           bash_retries : 0..MaxReportErrors,
           consecutive_edits_same_file : 0..MaxReportEdits,
           user_rejection_messages : 0..MaxReportRejections,
           total_user_messages : 0..MaxReportUserMsgs] :
      /\ m.bash_retries <= m.bash_failures
      /\ m.bash_failures <= m.tool_errors
      /\ m.consecutive_edits_same_file <= m.total_tool_uses
      /\ m.user_rejection_messages <= m.total_user_messages }

InitReport ==
  /\ metrics \in MetricInputs
  /\ session_metrics = ZeroSession
  /\ recent_tools = <<>>
  /\ recent_bash_failed = FALSE
  /\ apc = "idle"
  /\ sessions = 1
  /\ report = NoReport
  /\ DetIdle
  /\ CatIdle
  /\ RunIdle /\ XtrIdle /\ SelIdle /\ DelIdle

NextReport == GenerateReport

SpecReport == InitReport /\ [][NextReport]_vars

----------------------------------------------------------------------------
(* Aggregate reporting: advanced_analysis.py, analyze_tool_sequencing *)

\* The local dict tool_categories, in insertion order.
tool_categories == <<
  <<"exploration",  {"Read", "Grep", "Glob", "WebSearch", "WebFetch"}>>,
  <<"modification", {"Write", "Edit", "MultiEdit", "NotebookEdit"}>>,
  <<"execution",    {"Bash", "Task", "BashOutput", "TaskOutput"}>>,
  <<"planning",     {"TodoWrite", "EnterPlanMode", "ExitPlanMode"}>>,
  <<"interaction",  {"AskUserQuestion", "KillShell"}>>,
  <<"advanced",     {"AgentOutputTool", "mcp__playwright__browser_navigate",
                     "mcp__playwright__browser_press_key"}>> >>

\* sum(dist.get(tool, 0) for tool in tools)
RECURSIVE SumGet(_, _)
SumGet(dist, tools) ==
  IF tools = {} THEN 0
  ELSE LET t == CHOOSE x \in tools : TRUE
       IN (IF t \in DOMAIN dist THEN dist[t] ELSE 0) + SumGet(dist, tools \ {t})

\* category_stats of analyze_tool_sequencing; the division by
\* sum(tools_dist.values()) raises ZeroDivisionError when that sum is 0.
analyze_tool_sequencing(dist) ==
  LET total == SumGet(dist, DOMAIN dist)
      names == {tool_categories[c][1] : c \in 1..Len(tool_categories)}
      tools(name) == (CHOOSE c \in Range(tool_categories) : c[1] = name)[2]
  IN IF total = 0 THEN [kind |-> "ZeroDivisionError"]
     ELSE [kind |-> "stats",
           stats |-> [name \in names |->
             [total_uses |-> SumGet(dist, tools(name)),
              percentage |-> <<SumGet(dist, tools(name)) * 100, total>>,
              tools |-> [t \in tools(name) \cap DOMAIN dist |-> dist[t]]]]]

\* Tool names: those of either table, the empty string and two unlisted ones.
ToolNames ==
  UNION {TOOL_CATEGORIES[c][2] : c \in 1..Len(TOOL_CATEGORIES)}
    \cup UNION {tool_categories[c][2] : c \in 1..Len(tool_categories)}
    \cup {"", "Skill"}

\* Inputs: tools_distribution dicts of at most MaxDistTools tools.
MaxDistTools == 2
MaxDistCount == 2

DistInputs ==
  \E D \in {Q \in SUBSET ToolNames : Cardinality(Q) <= MaxDistTools} :
    tools_dist \in [D -> 1..MaxDistCount]

InitCat ==
  /\ DistInputs
  /\ categorized = [kind |-> "none"]
  /\ category_stats = NoStats
  /\ AnaIdle
  /\ DetIdle
  /\ RunIdle /\ XtrIdle /\ SelIdle /\ DelIdle

\* The Event Extractor's category of every tool of the distribution
\* (extract_tool_events: category=get_tool_category(tool_name)).
CategorizeTools ==
  /\ categorized.kind = "none"
  /\ categorized' = [kind |-> "done",
                     of |-> [t \in DOMAIN tools_dist |-> get_tool_category(t)]]
  /\ UNCHANGED <<tools_dist, category_stats, anaVars, detVars, extVars>>

\* analyze_tool_sequencing on the distribution.
AnalyzeToolSequencing ==
  /\ category_stats.kind = "none"
  /\ category_stats' = analyze_tool_sequencing(tools_dist)
  /\ UNCHANGED <<tools_dist, categorized, anaVars, detVars, extVars>>

NextCat == CategorizeTools \/ AnalyzeToolSequencing

SpecCat == InitCat /\ [][NextCat]_vars

----------------------------------------------------------------------------
(* run() over the session files: parse_jsonl, analyze_session, run *)

\* A content item: a dict with its "type", "name", input.file_path, "is_error"
\* and "text" keys, or a value that is not a dict (a bare string).
DictItem(type, name, file_path, is_error, text) ==
  [isdict |-> TRUE, type |-> type, name |-> name, file_path |-> file_path,
   is_error |-> is_error, text |-> text]
ToolUseItem(name, file_path) == DictItem("tool_use", name, file_path, FALSE, <<>>)
ResultItem(is_error)         == DictItem("tool_result", "", None, is_error, <<>>)
TextBlock(words)             == DictItem("text", "", None, FALSE, words)
StrItem(words) ==
  [isdict |-> FALSE, type |-> "str", name |-> "", file_path |-> None,
   is_error |-> FALSE, text |-> words]

\* message.content: a list of items, a string, or null.
ListContent(items) == [kind |-> "list", items |-> items, text |-> <<>>]
StrContent(words)  == [kind |-> "str", items |-> <<>>, text |-> words]
NullContent        == [kind |-> "null", items |-> <<>>, text |-> <<>>]

\* The value json.loads returns for a line: an object with its "type" and
\* "message" keys (the message an object, null, or the key missing), or a
\* value that is not an object (a number, a string, a list).
ModelMessage(role, content, model) ==
  [kind |-> "dict", role |-> role, content |-> content, model |-> model]
Message(role, content) == ModelMessage(role, content, None)
NullMessage == [kind |-> "null", role |-> None, content |-> NullContent, model |-> None]
NoMessage ==
  [kind |-> "missing", role |-> None, content |-> ListContent(<<>>), model |-> None]
Entry(type, message) == [isdict |-> TRUE, type |-> type, message |-> message]
ScalarEntry == [isdict |-> FALSE, type |-> None, message |-> NoMessage]

\* A line of a file: blank, text json.loads rejects (JSONDecodeError), bytes
\* that are not UTF-8 (UnicodeDecodeError while the file is read), or the
\* JSON text of a value.
BlankLine    == [k |-> "blank", value |-> ScalarEntry]
BadJsonLine  == [k |-> "badjson", value |-> ScalarEntry]
BadBytesLine == [k |-> "badbytes", value |-> ScalarEntry]
JsonLine(value) == [k |-> "json", value |-> value]

\* Index of the first line whose bytes do not decode, 0 when all decode.
FirstBadBytes(lines) ==
  IF \E x \in 1..Len(lines) : lines[x].k = "badbytes"
  THEN FirstIn({x \in 1..Len(lines) : lines[x].k = "badbytes"})
  ELSE 0

\* How many lines "for line in f" can deliver.  The text reader decodes the
\* file a buffer at a time, so the decoding error is raised when the buffer
\* holding the bad bytes is read: every line of that buffer is lost, the
\* lines of earlier buffers were delivered.  Where the buffer starts depends
\* on the byte lengths of the lines; a file shorter than one buffer delivers
\* nothing.
ReadableLines(lines) ==
  IF FirstBadBytes(lines) = 0 THEN {Len(lines)}
  ELSE 0..(FirstBadBytes(lines) - 1)

\* parse_jsonl: the values yielded when the reader delivers the first n
\* lines; a blank line and a line json.loads rejects yield nothing, the
\* exception of the reader ends the generator silently.
RECURSIVE parse_jsonl(_, _)
parse_jsonl(lines, n) ==
  IF n = 0 \/ lines = <<>> THEN <<>>
  ELSE (IF Head(lines).k = "json" THEN <<Head(lines).value>> ELSE <<>>)
         \o parse_jsonl(Tail(lines), n - 1)

\* _extract_text for any content: a string as it is, of a list the text
\* blocks and the bare strings joined by " ", anything else "".
RECURSIVE JoinTexts(_)
JoinTexts(items) ==
  IF items = <<>> THEN <<>>
  ELSE (IF (Head(items).isdict /\ Head(items).type = "text") \/ ~Head(items).isdict
          THEN Head(items).text ELSE <<>>)
         \o JoinTexts(Tail(items))
ExtractText(content) ==
  IF content.kind = "str" THEN content.text
  ELSE IF content.kind = "list" THEN JoinTexts(content.items)
  ELSE <<>>

\* A plausible slip: the pending-failure flag kept on the analyzer instead of
\* in a local, so that a failure of an earlier session is still pending.
SessionStartSticky(m) ==
  [metrics |-> m, session_metrics |-> ZeroSession, recent_tools |-> <<>>,
   recent_bash_failed |-> m.bash_failures > m.bash_retries, raised |-> FALSE]

\* The state of one call of analyze_session: self.metrics, the locals, and
\* whether an exception left the call.
SessionStart(m) ==
  [metrics |-> m, session_metrics |-> ZeroSession, recent_tools |-> <<>>,
   recent_bash_failed |-> FALSE, raised |-> FALSE]

\* The branch role == "user".
UserStep(st, content) ==
  LET add == IF contains_rejection(ExtractText(content)) THEN 1 ELSE 0
  IN [st EXCEPT !.session_metrics.user_messages = @ + 1,
                !.session_metrics.user_rejections = @ + add,
                !.metrics.total_user_messages = @ + 1,
                !.metrics.user_rejection_messages = @ + add]

\* The branch item type == "tool_use".
ToolUseStep(st, item) ==
  LET retry == item.name = "Bash" /\ st.recent_bash_failed
      corr  == IsImmediateCorrection(st.recent_tools, item.name, item.file_path)
      r     == IF retry THEN 1 ELSE 0
      c     == IF corr THEN 1 ELSE 0
  IN [st EXCEPT !.session_metrics.tool_uses = @ + 1,
                !.session_metrics.bash_retries = @ + r,
                !.session_metrics.consecutive_edits = @ + c,
                !.metrics.total_tool_uses = @ + 1,
                !.metrics.bash_retries = @ + r,
                !.metrics.consecutive_edits_same_file = @ + c,
                !.recent_bash_failed = IF retry THEN FALSE ELSE @,
                !.recent_tools =
                   Append(@, <<item.name, item.file_path, TRUE, Len(@)>>)]

\* The branch item type == "tool_result".
ToolResultStep(st, item) ==
  LET bash == /\ st.recent_tools # <<>>
              /\ st.recent_tools[Len(st.recent_tools)][1] = "Bash"
      e    == IF item.is_error THEN 1 ELSE 0
      b    == IF item.is_error /\ bash THEN 1 ELSE 0
  IN [st EXCEPT !.session_metrics.tool_errors = @ + e,
                !.session_metrics.bash_failures = @ + b,
                !.metrics.tool_errors = @ + e,
                !.metrics.bash_failures = @ + b,
                !.recent_bash_failed = IF item.is_error /\ bash THEN TRUE ELSE @]

\* One item of an assistant record; item.get raises AttributeError on a
\* value that is not a dict.
AnalyzeItem(st, item) ==
  IF ~item.isdict THEN [st EXCEPT !.raised = TRUE]
  ELSE IF item.type = "tool_use" THEN ToolUseStep(st, item)
  ELSE IF item.type = "tool_result" THEN ToolResultStep(st, item)
  ELSE st

RECURSIVE AnalyzeItems(_, _)
AnalyzeItems(st, items) ==
  IF items = <<>> \/ st.raised THEN st
  ELSE AnalyzeItems(AnalyzeItem(st, Head(items)), Tail(items))

\* A plausible slip: "if isinstance(content, list)" in place of the elif, so
\* that the items of a user record are analysed too.
AnalyzeEntryAnyRole(st, entry) ==
  IF ~entry.isdict THEN [st EXCEPT !.raised = TRUE]
  ELSE IF entry.type = "summary" THEN st
  ELSE IF entry.message.kind = "null" THEN [st EXCEPT !.raised = TRUE]
  ELSE LET after == IF entry.message.role = "user"
                      THEN UserStep(st, entry.message.content) ELSE st
       IN IF entry.message.content.kind = "list"
            THEN AnalyzeItems(after, entry.message.content.items)
            ELSE after

\* One record of the session; entry.get and message.get raise AttributeError
\* on a value that is not a dict.
AnalyzeEntry(st, entry) ==
  IF ~entry.isdict THEN [st EXCEPT !.raised = TRUE]
  ELSE IF entry.type = "summary" THEN st
  ELSE IF entry.message.kind = "null" THEN [st EXCEPT !.raised = TRUE]
  ELSE IF entry.message.role = "user" THEN UserStep(st, entry.message.content)
  ELSE IF entry.message.role = "assistant" /\ entry.message.content.kind = "list"
    THEN AnalyzeItems(st, entry.message.content.items)
  ELSE st

RECURSIVE AnalyzeEntries(_, _)
AnalyzeEntries(st, es) ==
  IF es = <<>> \/ st.raised THEN st
  ELSE AnalyzeEntries(AnalyzeEntry(st, Head(es)), Tail(es))

\* analyze_session on the records parse_jsonl yields, self.metrics being m.
analyze_session(m, es) == AnalyzeEntries(SessionStart(m), es)

\* Lines of session files.
AssistantLine(items) ==
  JsonLine(Entry("assistant", Message("assistant", ListContent(items))))
LSummary     == JsonLine(Entry("summary", NoMessage))
LUserNo      == JsonLine(Entry("user", Message("user", StrContent(<<"No">>))))
LAsstBash    == AssistantLine(<<ToolUseItem("Bash", None)>>)
LAsstBashErr == AssistantLine(<<ToolUseItem("Bash", None), ResultItem(TRUE)>>)
LAsstEditA   == AssistantLine(<<ToolUseItem("Edit", "a.py")>>)
LScalar      == JsonLine(ScalarEntry)
LNullMessage == JsonLine(Entry("assistant", NullMessage))
LStrItem     == AssistantLine(<<StrItem(<<"hello">>)>>)

\* A file of the list rglob returned: whether its name contains "agent-",
\* and its lines.
SessionFile(lines) == [agent |-> FALSE, lines |-> lines]
AgentFile == [agent |-> TRUE, lines |-> <<LAsstBashErr>>]

\* Bounds of the corpora.
MaxParseLines == 4
MaxRunFiles   == 2
MaxRunLines   == 1
MaxRuns       == 2

ParseLines   == {BlankLine, BadJsonLine, BadBytesLine, LSummary, LUserNo,
                 LAsstBash, LAsstBashErr, LAsstEditA}
RunLines     == {LAsstBashErr, LAsstBash, LAsstEditA, LUserNo}
CorruptLines == RunLines \cup {LScalar, LNullMessage, LStrItem}

\* The files a corpus is made of: the agent file, and the session files of
\* at most MaxRunLines lines of the set A.
FilesOf(A) ==
  {AgentFile} \cup
    {SessionFile(ls) : ls \in UNION {[1..k -> A] : k \in 0..MaxRunLines}}

\* files is a list of at most MaxRunFiles such files.
CorpusOf(A) == \E n \in 0..MaxRunFiles : files \in [1..n -> FilesOf(A)]

\* The loop body of run() on a file whose name contains "agent-".
SkipAgentFile ==
  /\ apc = "idle"
  /\ fidx < Len(files)
  /\ files[fidx + 1].agent
  /\ fidx' = fidx + 1
  /\ UNCHANGED <<files, entries, session_results, prev_report, runs,
                 anaVars, detVars, catVars, xtrVars, selVars, delVars>>

\* The loop body of run() on a session file: analyze_session(file_path) and
\* session_count += 1.  An exception of analyze_session leaves run().
AnalyzeSession ==
  /\ apc = "idle"
  /\ fidx < Len(files)
  /\ ~files[fidx + 1].agent
  /\ \E n \in ReadableLines(files[fidx + 1].lines) :
       LET es == parse_jsonl(files[fidx + 1].lines, n)
           st == analyze_session(metrics, es)
       IN /\ entries' = es
          /\ metrics' = st.metrics
          /\ session_metrics' = st.session_metrics
          /\ apc' = IF st.raised THEN "raised" ELSE "idle"
          /\ sessions' = IF st.raised THEN sessions ELSE sessions + 1
          /\ session_results' =
               IF st.raised THEN session_results
               ELSE Append(session_results, st.session_metrics)
  /\ fidx' = fidx + 1
  /\ UNCHANGED <<files, prev_report, runs, recent_tools, recent_bash_failed, report,
                 detVars, catVars, xtrVars, selVars, delVars>>

\* run() is called once more on the same VerificationAnalyzer: nothing of
\* self.metrics is reset, only the locals of run() start anew.
RunAgain ==
  /\ apc = "reported"
  /\ runs < MaxRuns
  /\ runs' = runs + 1
  /\ prev_report' = report
  /\ report' = NoReport
  /\ fidx' = 0
  /\ sessions' = 0
  /\ apc' = "idle"
  /\ UNCHANGED <<files, entries, metrics, session_results, session_metrics, recent_tools,
                 recent_bash_failed, detVars, catVars, xtrVars, selVars, delVars>>

\* main() is run once more: a new VerificationAnalyzer, then run().
RunFresh ==
  /\ apc = "reported"
  /\ runs < MaxRuns
  /\ runs' = runs + 1
  /\ prev_report' = report
  /\ report' = NoReport
  /\ fidx' = 0
  /\ sessions' = 0
  /\ session_results' = <<>>
  /\ metrics' = ZeroMetrics
  /\ apc' = "idle"
  /\ UNCHANGED <<files, entries, session_metrics, recent_tools,
                 recent_bash_failed, detVars, catVars, xtrVars, selVars, delVars>>

\* The analyzer built, run() entered, the list of files taken.
RunStart ==
  /\ metrics = ZeroMetrics
  /\ session_metrics = ZeroSession
  /\ recent_tools = <<>>
  /\ recent_bash_failed = FALSE
  /\ apc = "idle"
  /\ sessions = 0
  /\ report = NoReport
  /\ fidx = 0
  /\ entries = <<>>
  /\ session_results = <<>>
  /\ prev_report = NoReport
  /\ runs = 1
  /\ DetIdle /\ CatIdle /\ XtrIdle /\ SelIdle /\ DelIdle

\* One session file of at most MaxParseLines lines.
InitParse ==
  /\ \E m \in 0..MaxParseLines :
       \E ls \in [1..m -> ParseLines] : files = <<SessionFile(ls)>>
  /\ RunStart
NextParse == AnalyzeSession \/ GenerateReport
SpecParse == InitParse /\ [][NextParse]_vars

\* One run() over a corpus of well-formed files.
InitRun == CorpusOf(RunLines) /\ RunStart
NextRun == SkipAgentFile \/ AnalyzeSession \/ GenerateReport

\* One run() over a corpus that may hold malformed records.
InitCorrupt == CorpusOf(CorruptLines) /\ RunStart
SpecCorrupt == InitCorrupt /\ [][NextRun]_vars

\* The pipeline run twice over the same files.
NextRerun == NextRun \/ RunAgain \/ RunFresh
SpecRerun == InitRun /\ [][NextRerun]_vars

----------------------------------------------------------------------------
(* Weekly delegation score: compute_weekly_delegation.py *)

\* DELEGATION_WEIGHTS.get(category, 0.5)
DelegationWeight(category) ==
  CASE category \in {"exploration", "planning"} -> <<1, 1>>
    [] category \in {"modification", "execution"} -> <<1, 2>>
    [] category = "interaction" -> <<0, 1>>
    [] category = "other" -> <<1, 2>>
    [] OTHER -> <<1, 2>>

\* Python floats: IEEE 754 binary64, every operation rounded to the nearest
\* value of MantissaBits significant bits, ties to the even one.  A float is
\* 0 or m * 2^e with 2^52 <= m < 2^53.  (Exponent range and negative values
\* do not occur here.)  A large natural number, such as m, is the list of
\* its digits in base Limb, the most significant first.
MantissaBits == 53
LimbBits == 13
Limb == 2^LimbBits
MantissaLimbs == 5

Zeros(n) == [x \in 1..n |-> 0]
Front(s) == SubSeq(s, 1, Len(s) - 1)
Last(s)  == s[Len(s)]

FZero == [m |-> Zeros(MantissaLimbs), e |-> 0]
FOne  == [m |-> <<1>> \o Zeros(MantissaLimbs - 1), e |-> 1 - MantissaBits]

\* The digits without leading zeros.
StripZeros(ds) ==
  IF \A x \in 1..Len(ds) : ds[x] = 0 THEN <<>>
  ELSE SubSeq(ds, FirstIn({x \in 1..Len(ds) : ds[x] # 0}), Len(ds))

\* The digits as a list of n digits (the number is below Limb^n).
Fit(ds, n) ==
  LET s == StripZeros(ds) IN Zeros(n - Len(s)) \o s

\* Number of bits of the number.
BitLen(ds) ==
  LET s == StripZeros(ds)
  IN IF s = <<>> THEN 0
     ELSE LimbBits * (Len(s) - 1)
            + (CHOOSE k \in 1..LimbBits : 2^(k - 1) <= s[1] /\ s[1] < 2^k)

\* ds * k + carry, for k <= Limb
RECURSIVE MulSmall(_, _, _)
MulSmall(ds, k, carry) ==
  IF ds = <<>> THEN <<carry>>
  ELSE MulSmall(Front(ds), k, (Last(ds) * k + carry) \div Limb)
         \o <<(Last(ds) * k + carry) % Limb>>

\* Quotient and remainder of (r * Limb^Len(ds) + ds) by k, for r < k <= Limb.
RECURSIVE DivSmall(_, _, _)
DivSmall(ds, k, r) ==
  IF ds = <<>> THEN [q |-> <<>>, rem |-> r]
  ELSE LET acc  == r * Limb + Head(ds)
           rest == DivSmall(Tail(ds), k, acc % k)
       IN [q |-> <<acc \div k>> \o rest.q, rem |-> rest.rem]

\* a + b + carry for two lists of the same length
RECURSIVE AddDigits(_, _, _)
AddDigits(a, b, carry) ==
  IF a = <<>> THEN <<carry>>
  ELSE AddDigits(Front(a), Front(b), (Last(a) + Last(b) + carry) \div Limb)
         \o <<(Last(a) + Last(b) + carry) % Limb>>

\* ds * 2^s
ShiftLeft(ds, s) == MulSmall(ds, 2^(s % LimbBits), 0) \o Zeros(s \div LimbBits)

\* ds \div 2^s, and whether bits were lost
ShiftRight(ds, s) ==
  LET whole == Min2(s \div LimbBits, Len(ds))
      kept  == SubSeq(ds, 1, Len(ds) - whole)
      lost  == SubSeq(ds, Len(ds) - whole + 1, Len(ds))
      d     == DivSmall(kept, 2^(s % LimbBits), 0)
  IN [q |-> d.q, sticky |-> d.rem # 0 \/ \E x \in 1..Len(lost) : lost[x] # 0]

\* The float nearest to (ds + f) * 2^e, where 0 <= f < 1 and f > 0 iff
\* sticky; with sticky the caller supplies more than MantissaBits + 1 bits.
RoundDigits(ds, e, sticky) ==
  LET n == BitLen(ds)
  IN IF n = 0 THEN FZero
     ELSE IF n <= MantissaBits
       THEN [m |-> Fit(ShiftLeft(ds, MantissaBits - n), MantissaLimbs),
             e |-> e - (MantissaBits - n)]
     ELSE LET s    == n - MantissaBits
              h    == ShiftRight(ds, s - 1)
              q    == ShiftRight(h.q, 1).q
              rest == h.sticky \/ sticky
              up   == Last(h.q) % 2 = 1 /\ (rest \/ Last(q) % 2 = 1)
              r    == IF up THEN AddDigits(q, Zeros(Len(q) - 1) \o <<1>>, 0) ELSE q
          IN IF BitLen(r) > MantissaBits
               THEN [m |-> Fit(ShiftRight(r, 1).q, MantissaLimbs), e |-> e + s + 1]
               ELSE [m |-> Fit(r, MantissaLimbs), e |-> e + s]

\* a / b of two ints (0 <= a, 0 < b <= Limb): the quotient of a * Limb^6 by
\* b, rounded.
FDivInts(a, b) ==
  LET d == DivSmall(<<a \div Limb, a % Limb>> \o Zeros(6), b, 0)
  IN RoundDigits(d.q, 0 - 6 * LimbBits, d.rem # 0)

\* x * k for a float x and a small int k (x * 100).
FMulInt(x, k) == IF x = FZero THEN FZero ELSE RoundDigits(MulSmall(x.m, k, 0), x.e, FALSE)

\* x * w for a weight w of the table: 1.0, 0.5 and 0.0, all exact.
FMulWeight(x, w) ==
  IF x = FZero \/ w[1] = 0 THEN FZero
  ELSE IF w = <<1, 1>> THEN x
  ELSE [x EXCEPT !.e = @ - 1]

\* x + y
FAdd(x, y) ==
  IF x = FZero THEN y
  ELSE IF y = FZero THEN x
  ELSE LET hi == IF x.e >= y.e THEN x ELSE y
           lo == IF x.e >= y.e THEN y ELSE x
           a  == ShiftLeft(hi.m, hi.e - lo.e)
       IN RoundDigits(AddDigits(a, Fit(lo.m, Len(a)), 0), lo.e, FALSE)

\* x / k for a float x and a small int k (x / 100).
FDivInt(x, k) ==
  IF x = FZero THEN FZero
  ELSE LET d == DivSmall(x.m \o Zeros(2), k, 0)
       IN RoundDigits(d.q, x.e - 2 * LimbBits, d.rem # 0)

\* sum(category_counts.values())
RECURSIVE SumValues(_, _)
SumValues(cc, keys) ==
  IF keys = {} THEN 0
  ELSE LET c == CHOOSE x \in keys : TRUE
       IN cc[c] + SumValues(cc, keys \ {c})

\* weighted_sum after the loop over items, the (category, count) pairs of
\* category_counts.items() in the order of the dict, starting from acc.
RECURSIVE WeightedSum(_, _, _)
WeightedSum(items, total, acc) ==
  IF items = <<>> THEN acc
  ELSE LET weight     == DelegationWeight(Head(items)[1])
           percentage == FMulInt(FDivInts(Head(items)[2], total), 100)
       IN WeightedSum(Tail(items), total, FAdd(acc, FMulWeight(percentage, weight)))

\* What a call returns: a float, or the exception that left it.
FloatResult(value) == [kind |-> "float", value |-> value]
Raised(exception)  == [kind |-> exception, value |-> FZero]

\* The total of the counts of a list of items.
RECURSIVE ItemsTotal(_)
ItemsTotal(items) == IF items = <<>> THEN 0 ELSE Head(items)[2] + ItemsTotal(Tail(items))

\* A plausible slip: no test of total, count / total raises as soon as the
\* dict has an item.
compute_delegation_score_noguard(items) ==
  LET total == ItemsTotal(items)
  IN IF total = 0 /\ items # <<>> THEN Raised("ZeroDivisionError")
     ELSE FloatResult(FDivInt(WeightedSum(items, total, FZero), 100))

\* compute_delegation_score, items being category_counts.items()
compute_delegation_score(items) ==
  LET total == ItemsTotal(items)
  IN IF total = 0 THEN FloatResult(FZero)
     ELSE FloatResult(FDivInt(WeightedSum(items, total, FZero), 100))

\* The orders in which a dict with the keys D can hold them.
KeyOrders(D) ==
  {o \in [1..Cardinality(D) -> D] : \A x, y \in 1..Cardinality(D) : o[x] = o[y] => x = y}

\* The categories of a week's bucket: those of the table and one the table
\* does not hold (advanced_analysis has an "advanced" category).
BucketCategories ==
  {"exploration", "planning", "modification", "execution", "interaction", "other",
   "advanced"}

MaxBucketCategories == 2
MaxBucketCount == 2

\* category_counts is a dict of at most MaxBucketCategories categories.
BucketInputs ==
  \E D \in {Q \in SUBSET BucketCategories : Cardinality(Q) <= MaxBucketCategories} :
    category_counts \in [D -> 0..MaxBucketCount]

\* Counters with a rate whose denominator is 0.
ZeroDenominatorMetrics ==
  { m \in MetricInputs :
      /\ m.total_tool_uses <= 1
      /\ m.total_user_messages <= 1
      /\ (m.total_tool_uses = 0 \/ m.total_user_messages = 0) }

\* score = compute_delegation_score(categories), the dict holding its keys in
\* the order they were first counted.
ComputeDelegation ==
  /\ delegation_score.kind = "none"
  /\ \E o \in KeyOrders(DOMAIN category_counts) :
       delegation_score' =
         compute_delegation_score([x \in DOMAIN o |-> <<o[x], category_counts[o[x]]>>])
  /\ UNCHANGED <<category_counts, anaVars, detVars, catVars, runVars, xtrVars, selVars>>

\* The rate computations on their inputs: a week's bucket for the delegation
\* score, or counters for the report.
InitRates ==
  /\ \/ BucketInputs /\ metrics = ZeroMetrics
     \/ category_counts = <<>> /\ metrics \in ZeroDenominatorMetrics
  /\ delegation_score = [kind |-> "none"]
  /\ session_metrics = ZeroSession
  /\ recent_tools = <<>>
  /\ recent_bash_failed = FALSE
  /\ apc = "idle"
  /\ sessions = 1
  /\ report = NoReport
  /\ DetIdle /\ CatIdle /\ RunIdle /\ XtrIdle /\ SelIdle
NextRates == ComputeDelegation \/ GenerateReport
SpecRates == InitRates /\ [][NextRates]_vars

----------------------------------------------------------------------------
(* Properties of the detectors *)

Cat(i) == At(events, i).category
Idx == 0..(Len(events) - 1)

\* No two matches of the list share an event index.
NoOverlap(ms) ==
  \A x \in 1..Len(ms) : \A y \in 1..Len(ms) :
    x # y => (ms[x][2] <= ms[y][1] \/ ms[y][2] <= ms[x][1])

\* No two matches of the list start at the same index.
DistinctStarts(ms) ==
  \A x \in 1..Len(ms) : \A y \in 1..Len(ms) : x # y => ms[x][1] # ms[y][1]

\* C2: every match (i, e) of find_execute_explore_modify_cycles has an
\* execution event at i, a modification event at e-1 and an exploration event
\* at some j with i < j <= i+4 and j < e-1 <= j+4; the list [execution,
\* exploration, modification] gives exactly the match (0, 3).
C2_CycleShape ==
  dpc = "done" =>
    /\ \A x \in 1..Len(cycles) :
         LET i == cycles[x][1]
             e == cycles[x][2]
         IN /\ 0 <= i /\ i < e /\ e <= Len(events)
            /\ Cat(i) = "execution"
            /\ Cat(e - 1) = "modification"
            /\ \E j \in (i + 1)..(i + 4) :
                 j < e - 1 /\ e - 1 <= j + 4 /\ Cat(j) = "exploration"
    /\ (Len(events) = 3 /\ Cat(0) = "execution" /\ Cat(1) = "exploration"
          /\ Cat(2) = "modification") => cycles = << <<0, 3>> >>

\* C2 witness: a cycle whose exploration and modification events are not adjacent.
C2_Witness ==
  dpc = "done" /\ \E x \in 1..Len(cycles) : cycles[x][2] - cycles[x][1] >= 6

\* i is outside every match that starts before it.
Unmatched(i) ==
  \A x \in 1..Len(cycles) : cycles[x][1] < i => cycles[x][2] <= i

\* C3 as stated: an unmatched execution event at i with some exploration event
\* within the next 4 events and some modification event within the 4 events
\* after that one starts a match.
C3_AnyExploration ==
  dpc = "done" =>
    \A i \in Idx :
      ( /\ Cat(i) = "execution"
        /\ Unmatched(i)
        /\ \E j \in Idx : \E k \in Idx :
             /\ i < j /\ j <= i + 4 /\ Cat(j) = "exploration"
             /\ j < k /\ k <= j + 4 /\ Cat(k) = "modification" )
      => \E x \in 1..Len(cycles) : cycles[x][1] = i

\* C3 amended: only the first exploration event after i (within the next 4
\* events) is tried: when a modification event lies within the 4 events after
\* it, the match (i, k+1) with the first such k is emitted.
C3_FirstExploration ==
  dpc = "done" =>
    \A i \in Idx :
      ( /\ Cat(i) = "execution"
        /\ Unmatched(i) )
      => \A j \in Idx : \A k \in Idx :
           ( /\ i < j /\ j <= i + 4 /\ Cat(j) = "exploration"
             /\ \A h \in (i + 1)..(j - 1) : Cat(h) # "exploration"
             /\ j < k /\ k <= j + 4 /\ Cat(k) = "modification"
             /\ \A h \in (j + 1)..(k - 1) : Cat(h) # "modification" )
           => \E x \in 1..Len(cycles) : cycles[x] = <<i, k + 1>>

\* C3 witness: a match whose exploration event is the 4th event after the
\* execution event, the far end of the window.
C3_Witness ==
  /\ dpc = "done"
  /\ \E x \in 1..Len(cycles) :
       /\ cycles[x][1] + 4 < Len(events)
       /\ Cat(cycles[x][1] + 4) = "exploration"
       /\ \A h \in (cycles[x][1] + 1)..(cycles[x][1] + 3) : Cat(h) # "exploration"

\* C4 as stated: no detector emits two overlapping matches.
C4_NoDetectorOverlaps ==
  dpc = "done" => NoOverlap(cycles) /\ NoOverlap(corrections) /\ NoOverlap(retries)

\* C4 amended: the execute-explore-modify detector emits no two overlapping
\* matches; the correction and bash-retry detectors may (a chain of edits of
\* one file, successive failed Bash events), but no two matches of one of them
\* start at the same index.
C4_CyclesDisjoint ==
  dpc = "done" =>
    NoOverlap(cycles) /\ DistinctStarts(corrections) /\ DistinctStarts(retries)

\* C4 witness: two cycles in one session.
C4_Witness == dpc = "done" /\ Len(cycles) >= 2

\* The pairs of successive edits of one file at most 10 events apart.
CloseEditPairs ==
  { <<a, b + 1>> : <<a, b>> \in
      { p \in Idx \X Idx :
          /\ p[1] < p[2]
          /\ Cat(p[1]) = "modification" /\ Cat(p[2]) = "modification"
          /\ At(events, p[1]).file_path \notin {None, ""}
          /\ At(events, p[1]).file_path = At(events, p[2]).file_path
          /\ \A h \in (p[1] + 1)..(p[2] - 1) :
               ~(Cat(h) = "modification"
                 /\ At(events, h).file_path = At(events, p[1]).file_path)
          /\ p[2] - p[1] <= 10 } }

\* C5: find_correction_sequences returns exactly the pairs (a, b+1) of
\* successive modification events of one file_path with b - a <= 10, each once;
\* the endpoints of a match have the same file_path.
C5_CorrectionPairs ==
  dpc = "done" =>
    /\ Range(corrections) = CloseEditPairs
    /\ Len(corrections) = Cardinality(CloseEditPairs)
    /\ \A x \in 1..Len(corrections) :
         At(events, corrections[x][1]).file_path
           = At(events, corrections[x][2] - 1).file_path

\* C5 witness: a match of two edits exactly 10 events apart with an edit of
\* another file between them.
C5_Witness ==
  /\ dpc = "done"
  /\ \E x \in 1..Len(corrections) :
       /\ corrections[x][2] - 1 - corrections[x][1] = 10
       /\ \E h \in (corrections[x][1] + 1)..(corrections[x][2] - 2) :
            /\ Cat(h) = "modification"
            /\ At(events, h).file_path \notin {None, "", At(events, corrections[x][1]).file_path}

IsBash(i) == At(events, i).tool_name = "Bash"

\* The Bash events among the 4 events after index i.
NextBash(i) == {j \in Idx : i < j /\ j <= i + 4 /\ IsBash(j)}

\* C6: a failed Bash event at i gives the match (i, j+1) exactly when a Bash
\* event lies in i+1..i+4, j being the first; at most one match starts at any
\* i, none at an event that is no failed Bash; [Bash(fail), Read, Bash] gives
\* exactly (0, 3), and a next Bash 5 or more events later gives nothing.
C6_BashRetry ==
  dpc = "done" =>
    /\ \A i \in Idx :
         LET at == {x \in 1..Len(retries) : retries[x][1] = i}
         IN IF IsBash(i) /\ ~At(events, i).success /\ NextBash(i) # {}
            THEN /\ Cardinality(at) = 1
                 /\ \A x \in at : retries[x] = <<i, FirstIn(NextBash(i)) + 1>>
            ELSE at = {}
    /\ \A x \in 1..Len(retries) : retries[x][1] \in Idx
    /\ events = <<EvBashFail, EvRead, EvBashOk>> => retries = << <<0, 3>> >>
    /\ events = <<EvBashFail, EvRead, EvRead, EvRead, EvRead, EvRead, EvBashOk>>
         => retries = <<>>

\* C6 witness: a retry found at the far end of the window, the 4th event after
\* the failure.
C6_Witness ==
  dpc = "done" /\ \E x \in 1..Len(retries) : retries[x][2] - retries[x][1] = 5

----------------------------------------------------------------------------
(* Properties of the metrics, the report and the category tables *)

\* A rate lies in [0, 1].
InUnit(r) == 0 <= r[1] /\ r[1] <= r[2]

\* C1: after analyze_session has returned, whatever the records of the
\* sessions so far, error_rate, bash_failure_rate, correction_rate and
\* user_rejection_rate all lie in [0, 1].
C1_RatesInUnitInterval ==
  apc = "idle" =>
    /\ InUnit(error_rate(metrics))
    /\ InUnit(bash_failure_rate(metrics))
    /\ InUnit(correction_rate(metrics))
    /\ InUnit(user_rejection_rate(metrics))

\* The categories a ToolEvent can carry.
Categories ==
  {"exploration", "modification", "execution", "planning", "interaction",
   "advanced", "other"}

\* The lists of TOOL_CATEGORIES that hold the name.
ListsOf(t) == {c \in 1..Len(TOOL_CATEGORIES) : t \in TOOL_CATEGORIES[c][2]}

\* C7: get_tool_category gives every tool name (listed, unlisted or empty) one
\* category: that of the only list holding the name, "other" when no list holds
\* it; no name is in two lists.
C7_CategoryTotal ==
  categorized.kind = "done" =>
    \A t \in DOMAIN tools_dist :
      /\ t \in DOMAIN categorized.of
      /\ categorized.of[t] \in Categories
      /\ Cardinality(ListsOf(t)) <= 1
      /\ \A c \in ListsOf(t) : categorized.of[t] = TOOL_CATEGORIES[c][1]
      /\ ListsOf(t) = {} => categorized.of[t] = "other"

\* C7 witness: the empty name and a listed name categorized together.
C7_Witness ==
  /\ categorized.kind = "done"
  /\ "" \in DOMAIN categorized.of
  /\ \E t \in DOMAIN categorized.of : ListsOf(t) # {}

\* C8: the aggregate report puts every tool of the distribution in the
\* category get_tool_category gives it, and the category totals add up to the
\* number of tool uses (no tool is dropped).
C8_SingleCategoryTable ==
  (category_stats.kind = "stats" /\ categorized.kind = "done") =>
    /\ \A t \in DOMAIN tools_dist :
         /\ categorized.of[t] \in DOMAIN category_stats.stats
         /\ t \in DOMAIN category_stats.stats[categorized.of[t]].tools
    /\ SumGet([c \in DOMAIN category_stats.stats |->
                 category_stats.stats[c].total_uses], DOMAIN category_stats.stats)
         = SumGet(tools_dist, DOMAIN tools_dist)

\* C9: verification_score = 0.3 error_rate + 0.4 correction_rate + 0.3
\* user_rejection_rate (a rate being 0 when its denominator is 0),
\* endorsement_proxy = 1 - verification_score, the two add up to 1; rates
\* 0.10, 0.05 and 0.20 give 0.11 and 0.89.
C9_CompositeScore ==
  report.kind = "report" =>
    LET T  == metrics.total_tool_uses
        U  == metrics.total_user_messages
        TT == IF T > 0 THEN T ELSE 1
        UU == IF U > 0 THEN U ELSE 1
        E  == IF T > 0 THEN metrics.tool_errors ELSE 0
        C  == IF T > 0 THEN metrics.consecutive_edits_same_file ELSE 0
        R  == IF U > 0 THEN metrics.user_rejection_messages ELSE 0
        v  == report.verification_score
        e  == report.endorsement_proxy
    IN /\ v[2] > 0 /\ e[2] > 0
       /\ v[1] * (10 * TT * UU) = v[2] * (3 * E * UU + 4 * C * UU + 3 * R * TT)
       /\ v[1] * e[2] + e[1] * v[2] = v[2] * e[2]
       /\ (T > 0 /\ U > 0 /\ 10 * E = T /\ 20 * C = T /\ 5 * R = U)
            => (100 * v[1] = 11 * v[2] /\ 100 * e[1] = 89 * e[2])

\* C9 witness: the report of error_rate 0.10, correction_rate 0.05 and
\* rejection rate 0.20.
C9_Witness ==
  /\ report.kind = "report"
  /\ metrics.total_tool_uses > 0 /\ metrics.total_user_messages > 0
  /\ 10 * metrics.tool_errors = metrics.total_tool_uses
  /\ 20 * metrics.consecutive_edits_same_file = metrics.total_tool_uses
  /\ 5 * metrics.user_rejection_messages = metrics.total_user_messages

\* score lies in [lo, hi) percent; hi = 0 stands for no upper end, lo = 0 for
\* no lower end.
InBand(score, lo, hi) ==
  /\ lo = 0 \/ score[1] * 100 >= lo * score[2]
  /\ hi = 0 \/ score[1] * 100 < hi * score[2]

\* The label of a verification_score in the bands [lower, upper).
VerificationBands(v, label) ==
  /\ InBand(v, 0, 5)
       <=> label = "Minimal verification behavior - high automatic endorsement"
  /\ InBand(v, 5, 10)
       <=> label = "Low verification behavior - substantial automatic endorsement"
  /\ InBand(v, 10, 20)
       <=> label = "Moderate verification behavior - mixed endorsement pattern"
  /\ InBand(v, 20, 0)
       <=> label = "High verification behavior - skeptical endorsement pattern"

\* C10 as stated: both bandings are half-open [lower, upper): a score equal to
\* a threshold gets the label of the band that begins there.
C10_BothLowerClosed ==
  report.kind = "report" =>
    LET e     == report.endorsement_proxy
        label == report.interpretation.endorsement_level
    IN /\ VerificationBands(report.verification_score,
                            report.interpretation.verification_behavior)
       /\ InBand(e, 95, 0)  <=> label = "Very high automatic endorsement"
       /\ InBand(e, 90, 95) <=> label = "High automatic endorsement"
       /\ InBand(e, 80, 90) <=> label = "Moderate automatic endorsement"
       /\ InBand(e, 0, 80)  <=> label = "Low automatic endorsement"

\* score lies in (lo, hi] percent, with the same 0 for a missing end.
InBandUpper(score, lo, hi) ==
  /\ lo = 0 \/ score[1] * 100 > lo * score[2]
  /\ hi = 0 \/ score[1] * 100 <= hi * score[2]

\* C10 amended: the verification bands are [lower, upper); the endorsement
\* bands are (lower, upper]: an endorsement_proxy equal to 0.80, 0.90 or 0.95
\* gets the label of the band that ends there.  Each score has one label.
C10_EndorsementUpperClosed ==
  report.kind = "report" =>
    LET e     == report.endorsement_proxy
        label == report.interpretation.endorsement_level
    IN /\ VerificationBands(report.verification_score,
                            report.interpretation.verification_behavior)
       /\ InBandUpper(e, 95, 0)  <=> label = "Very high automatic endorsement"
       /\ InBandUpper(e, 90, 95) <=> label = "High automatic endorsement"
       /\ InBandUpper(e, 80, 90) <=> label = "Moderate automatic endorsement"
       /\ InBandUpper(e, 0, 80)  <=> label = "Low automatic endorsement"

\* C10 witness: a report whose verification_score is exactly 0.05 and whose
\* endorsement_proxy is exactly 0.95.
C10_Witness ==
  /\ report.kind = "report"
  /\ report.verification_score[1] * 100 = 5 * report.verification_score[2]
  /\ report.endorsement_proxy[1] * 100 = 95 * report.endorsement_proxy[2]

-----------------------------------------------------------------------------
(* extract_tool_events: the ToolEvent list of one session *)

\* A plausible slip: the result updates the first event instead of the last.
UpdateSuccessFirst(evs, is_error) ==
  IF evs = <<>> THEN evs
  ELSE [evs EXCEPT ![1].success = ~is_error]

\* if events: events[-1].success = not is_error
UpdateSuccess(evs, is_error) ==
  IF evs = <<>> THEN evs
  ELSE [evs EXCEPT ![Len(evs)].success = ~is_error]

\* A plausible slip: current_model is set from every record, also from one
\* without a model.
NextModelNotSticky(model, message) == message.model

\* if message.get("model"): current_model = message.get("model")
NextModel(model, message) ==
  IF Truthy(message.model) THEN message.model ELSE model

\* What visiting an item that is an object does to events.
VisitItem(evs, item, model) ==
  IF item.type = "tool_use"
    THEN Append(evs, [ToolEvent(item.name, item.file_path, TRUE) EXCEPT !.model = model])
  ELSE IF item.type = "tool_result" THEN UpdateSuccess(evs, item.is_error)
  ELSE evs

\* The items of the content of a record: those of a list, none otherwise.
EntryItems(entry) ==
  IF entry.message.content.kind = "list" THEN entry.message.content.items ELSE <<>>

\* Records of a session file and the longest content list of one.
MaxExtractRecords == 3
MaxExtractItems == 2

\* The model fields of the records.
Models == {"opus", "sonnet"}

\* The items of the content lists.
ExtractItems == {ToolUseItem("Bash", None), ResultItem(TRUE), ResultItem(FALSE)}

\* The records parse_jsonl can yield: assistant or user records with a list
\* of items, and records of the other shapes.
ExtractRecords ==
  { Entry("assistant", Message("assistant", ListContent(items))) :
      items \in UNION {[1..n -> ExtractItems] : n \in 0..MaxExtractItems} }
  \cup { Entry("assistant", Message("assistant",
                 ListContent(<<ToolUseItem("Edit", "a.py"), ResultItem(TRUE)>>))),
         Entry("user", Message("user", ListContent(<<ResultItem(TRUE), ResultItem(FALSE)>>))),
         Entry("assistant", Message("assistant", ListContent(<<TextBlock(<<"ok">>)>>))),
         Entry("user", Message("user", ListContent(<<StrItem(<<"hello">>)>>))),
         Entry("user", Message("user", StrContent(<<"No">>))),
         Entry("summary", NoMessage),
         Entry("assistant", NullMessage),
         ScalarEntry }
  \cup { Entry("assistant", ModelMessage("assistant", ListContent(items), model)) :
           items \in {<<>>, <<ToolUseItem("Bash", None)>>}, model \in Models \cup {""} }

\* events = []; the loop over parse_jsonl(file_path) is entered.
ExtractStart ==
  /\ xpc = "idle"
  /\ xpc' = "extract"
  /\ UNCHANGED <<events, nread, current_model, models_read, ipos, origins, pending,
                 success_writes, dpc, cycles, corrections, retries, loopVars,
                 anaVars, catVars, runVars, selVars, delVars>>

\* One more record from parse_jsonl: entry.get raises on a value that is not
\* an object, a summary is skipped, message.get raises on null, and a
\* content that is a list is then visited item by item.
ExtractEntry ==
  /\ xpc = "extract"
  /\ pending = <<>>
  /\ nread < MaxExtractRecords
  /\ \E entry \in ExtractRecords :
       /\ models_read' = Append(models_read, entry.message.model)
       /\ IF ~entry.isdict
            THEN xpc' = "raised" /\ pending' = <<>> /\ UNCHANGED current_model
          ELSE IF entry.type = "summary"
            THEN xpc' = xpc /\ pending' = <<>> /\ UNCHANGED current_model
          ELSE IF entry.message.kind = "null"
            THEN xpc' = "raised" /\ pending' = <<>> /\ UNCHANGED current_model
          ELSE /\ xpc' = xpc
               /\ current_model' = NextModel(current_model, entry.message)
               /\ pending' = EntryItems(entry)
  /\ nread' = nread + 1
  /\ ipos' = 0
  /\ UNCHANGED <<events, origins, success_writes, dpc, cycles, corrections, retries, loopVars,
                 anaVars, catVars, runVars, selVars, delVars>>

\* The body of "for item in content": item.get raises on a str; a tool_use
\* appends a ToolEvent with success True; a tool_result sets the success of
\* the last event; any other item is passed over.
ExtractItem ==
  /\ xpc = "extract"
  /\ pending # <<>>
  /\ LET item == Head(pending)
     IN IF ~item.isdict
          THEN /\ xpc' = "raised"
               /\ pending' = <<>>
               /\ UNCHANGED <<events, origins, success_writes>>
        ELSE /\ xpc' = xpc
             /\ pending' = Tail(pending)
             /\ events' = VisitItem(events, item, current_model)
             /\ origins' = IF item.type = "tool_use"
                             THEN Append(origins, <<nread, ipos + 1>>) ELSE origins
             /\ success_writes' =
                  IF item.type = "tool_use" THEN Append(success_writes, 0)
                  ELSE IF item.type = "tool_result" /\ events # <<>>
                    THEN [success_writes EXCEPT ![Len(events)] = @ + 1]
                  ELSE success_writes
  /\ ipos' = ipos + 1
  /\ UNCHANGED <<nread, current_model, models_read, dpc, cycles, corrections, retries, loopVars,
                 anaVars, catVars, runVars, selVars, delVars>>

\* parse_jsonl is exhausted: return events.
ExtractReturn ==
  /\ xpc = "extract"
  /\ pending = <<>>
  /\ xpc' = "done"
  /\ UNCHANGED <<events, nread, current_model, models_read, ipos, origins, pending,
                 success_writes, dpc, cycles, corrections, retries, loopVars,
                 anaVars, catVars, runVars, selVars, delVars>>

InitExtract == DetIdle /\ AnaIdle /\ CatIdle /\ RunIdle /\ XtrIdle /\ SelIdle /\ DelIdle
NextExtract == ExtractStart \/ ExtractEntry \/ ExtractItem \/ ExtractReturn
SpecExtract == InitExtract /\ [][NextExtract]_vars

-----------------------------------------------------------------------------
(* MicroExampleExtractor.run: the sequences of a corpus and the selection *)

\* What extract_tool_events returns for the records of a file: the events,
\* or the exception of a record or item that is not an object.
RECURSIVE VisitItems(_, _, _)
VisitItems(evs, items, model) ==
  IF items = <<>> THEN [kind |-> "events", events |-> evs]
  ELSE IF ~Head(items).isdict THEN [kind |-> "raised", events |-> evs]
  ELSE VisitItems(VisitItem(evs, Head(items), model), Tail(items), model)

RECURSIVE VisitEntries(_, _, _)
VisitEntries(evs, records, model) ==
  IF records = <<>> THEN [kind |-> "events", events |-> evs]
  ELSE LET entry == Head(records)
       IN IF ~entry.isdict THEN [kind |-> "raised", events |-> evs]
          ELSE IF entry.type = "summary" THEN VisitEntries(evs, Tail(records), model)
          ELSE IF entry.message.kind = "null" THEN [kind |-> "raised", events |-> evs]
          ELSE LET r == VisitItems(evs, EntryItems(entry), NextModel(model, entry.message))
               IN IF r.kind = "raised" THEN r
                  ELSE VisitEntries(r.events, Tail(records), NextModel(model, entry.message))

extract_tool_events(records) == VisitEntries(<<>>, records, None)

\* l[:n]
Take(l, n) == SubSeq(l, 1, Min2(n, Len(l)))

\* extract_sequence: the events[start:end] of a pattern, with the tool names
\* of its description.
InteractionSequence(pattern_type, evs, span) ==
  LET seq_events == SubSeq(evs, span[1] + 1, Min2(span[2], Len(evs)))
  IN [pattern_type |-> pattern_type,
      events |-> seq_events,
      description |-> [x \in DOMAIN seq_events |-> seq_events[x].tool_name]]

SequencesOf(pattern_type, evs, spans) ==
  [x \in DOMAIN spans |-> InteractionSequence(pattern_type, evs, spans[x])]

\* process_session on the events of a file: nothing for fewer than three
\* events, else at most two cycles, one correction and one retry.
process_session(evs) ==
  IF Len(evs) < 3 THEN <<>>
  ELSE SequencesOf("execute_explore_modify", evs,
                   Take(find_execute_explore_modify_cycles(evs), 2))
       \o SequencesOf("correction_sequence", evs, Take(find_correction_sequences(evs), 1))
       \o SequencesOf("bash_retry", evs, Take(find_bash_retry_sequences(evs), 1))

\* The sequences of one pattern type, in the order of all_sequences.
ByPattern(seqs, pattern) == SelectSeq(seqs, LAMBDA s : s.pattern_type = pattern)

\* A plausible slip: sorted without reverse=True, the shortest first.
SortedByEventsAscending(seqs) ==
  LET n == Len(seqs)
      rank(i) == 1 + Cardinality({j \in 1..n :
                       \/ Len(seqs[j].events) < Len(seqs[i].events)
                       \/ Len(seqs[j].events) = Len(seqs[i].events) /\ j < i})
  IN [r \in 1..n |-> seqs[CHOOSE i \in 1..n : rank(i) = r]]

\* sorted(seqs, key=lambda s: len(s.events), reverse=True): the longest
\* first, sequences of equal length in their order in seqs.
SortedByEvents(seqs) ==
  LET n == Len(seqs)
      rank(i) == 1 + Cardinality({j \in 1..n :
                       \/ Len(seqs[j].events) > Len(seqs[i].events)
                       \/ Len(seqs[j].events) = Len(seqs[i].events) /\ j < i})
  IN [r \in 1..n |-> seqs[CHOOSE i \in 1..n : rank(i) = r]]

\* The keys of selected, and the number of examples kept for each.
PatternTypes == {"execute_explore_modify", "correction_sequence", "bash_retry"}
TopExamples == 5

\* The dict run() returns for all_sequences.
SelectExamples(seqs) ==
  LET found == {p \in PatternTypes : ByPattern(seqs, p) # <<>>}
  IN [kind |-> "results",
      total_sequences |-> Len(seqs),
      by_pattern |-> [p \in found |-> Len(ByPattern(seqs, p))],
      selected_examples |->
        [p \in PatternTypes |-> Take(SortedByEvents(ByPattern(seqs, p)), TopExamples)]]

\* One assistant record per tool use, the result of a failed one after it.
Use(name, file_path) == AssistantLine(<<ToolUseItem(name, file_path)>>)
FailedUse(name) == AssistantLine(<<ToolUseItem(name, None), ResultItem(TRUE)>>)

\* The session files of a corpus: sessions with two short cycles and a
\* correction, with a long and a short cycle, with three cycles, with a
\* retry, one with two events only, an agent file, and a file with a line
\* that is not an object.
SelectFiles ==
  { SessionFile(<<Use("Bash", None), Use("Read", "a.py"), Use("Edit", "a.py"),
                  Use("Bash", None), Use("Read", "a.py"), Use("Edit", "a.py")>>),
    SessionFile(<<Use("Bash", None), Use("Skill", None), Use("Read", "a.py"),
                  Use("Skill", None), Use("Edit", "a.py"),
                  Use("Bash", None), Use("Read", "a.py"), Use("Write", "b.py")>>),
    SessionFile(<<Use("Bash", None), Use("Read", "a.py"), Use("Edit", "a.py"),
                  Use("Bash", None), Use("Read", "a.py"), Use("Edit", "a.py"),
                  Use("Bash", None), Use("Read", "a.py"), Use("Edit", "a.py")>>),
    SessionFile(<<FailedUse("Bash"), Use("Bash", None), Use("Read", "a.py")>>),
    SessionFile(<<FailedUse("Bash"), Use("Bash", None)>>),
    AgentFile,
    SessionFile(<<LScalar>>) }

\* Files of the source directory.
MaxCorpus == 3

\* all_sequences = []; the files are listed.
SelectStart ==
  /\ rpc = "idle"
  /\ rpc' = "scan"
  /\ UNCHANGED <<corpus, all_sequences, results, detVars, anaVars, catVars,
                 runVars, xtrVars, delVars>>

\* The body of the loop over files: an agent file is skipped, the sequences
\* of process_session are added to all_sequences; an exception of
\* extract_tool_events leaves run().
ProcessSession ==
  /\ rpc = "scan"
  /\ Len(corpus) < MaxCorpus
  /\ \E file \in SelectFiles :
       /\ corpus' = Append(corpus, file)
       /\ IF file.agent THEN UNCHANGED <<all_sequences, rpc>>
          ELSE LET r == extract_tool_events(parse_jsonl(file.lines, Len(file.lines)))
               IN IF r.kind = "raised"
                    THEN rpc' = "raised" /\ UNCHANGED all_sequences
                    ELSE /\ all_sequences' = all_sequences \o process_session(r.events)
                         /\ UNCHANGED rpc
  /\ UNCHANGED <<results, detVars, anaVars, catVars, runVars, xtrVars, delVars>>

\* After the loop: group by pattern type, sort, keep the top, return.
SelectReturn ==
  /\ rpc = "scan"
  /\ results' = SelectExamples(all_sequences)
  /\ rpc' = "done"
  /\ UNCHANGED <<corpus, all_sequences, detVars, anaVars, catVars, runVars, xtrVars, delVars>>

InitSelect == DetIdle /\ AnaIdle /\ CatIdle /\ RunIdle /\ XtrIdle /\ SelIdle /\ DelIdle
NextSelect == SelectStart \/ ProcessSession \/ SelectReturn
SpecSelect == InitSelect /\ [][NextSelect]_vars

-----------------------------------------------------------------------------
(* analyze_session on one session of tool uses: consecutive edits *)

\* Tool uses of one session.
MaxEditLines == 7

\* One assistant record per tool use: edits of two files, an edit without a
\* path, and a tool that is no modification.
EditLines ==
  {Use("Edit", "a.py"), Use("Write", "b.py"), Use("MultiEdit", None), Use("Read", "a.py")}

\* One session file of at most MaxEditLines tool uses.
InitEdits ==
  /\ \E m \in 0..MaxEditLines :
       \E ls \in [1..m -> EditLines] : files = <<SessionFile(ls)>>
  /\ RunStart
SpecEdits == InitEdits /\ [][NextParse]_vars

-----------------------------------------------------------------------------
(* analyze_session: user records among the uses and failures of one tool *)

NextUser ==
  \/ BeginSession
  \/ \E content \in UserContents : UserRecord(content)
  \/ ToolUse("Bash", None)
  \/ ToolResult(TRUE)
  \/ EndSession
SpecUser == Init /\ [][NextUser]_vars

----------------------------------------------------------------------------
(* The three detectors on long sessions *)

\* Longest event list and most events of interest placed in it.
MaxSpanLen == 11
MaxSpanMarks == 3

\* events is a list of other-category events with at most MaxSpanMarks failed
\* Bash, Read or Edit events placed in it: long enough for the widest match of
\* each detector.
SpanInputs ==
  \E m \in 0..MaxSpanLen :
    \E P \in {Q \in SUBSET (1..m) : Cardinality(Q) <= MaxSpanMarks} :
      \E f \in [P -> {EvBashFail, EvRead, EvEditA}] :
        events = [x \in 1..m |-> IF x \in P THEN f[x] ELSE EvOther]

InitSpans == SpanInputs /\ DetInput
SpecSpans == InitSpans /\ [][DetNext]_vars

----------------------------------------------------------------------------
(* analyze_session: Bash failures and retries far apart and across sessions *)

\* Lines of the first session and the Bash uses and error results among them.
MaxRetryLines == 9
MaxRetryMarks == 5

\* An assistant record with one tool_result whose is_error is true.
ErrorLine == AssistantLine(<<ResultItem(TRUE)>>)

\* A session of Read uses with at most MaxRetryMarks Bash uses and error
\* results placed in it, alone or followed by a session of one Bash use.
InitRetry ==
  /\ \E m \in 0..MaxRetryLines :
       \E P \in {Q \in SUBSET (1..m) : Cardinality(Q) <= MaxRetryMarks} :
         \E f \in [P -> {Use("Bash", None), ErrorLine}] :
           LET first == SessionFile([x \in 1..m |-> IF x \in P THEN f[x]
                                                    ELSE Use("Read", "a.py")])
           IN \/ files = <<first>>
              \/ files = <<first, SessionFile(<<Use("Bash", None)>>)>>
  /\ RunStart
SpecRetry == InitRetry /\ [][NextParse]_vars

----------------------------------------------------------------------------
(* One session file read by analyze_session and by extract_tool_events *)

\* Records of the session file.
MaxRoleLines == 4

\* A record with role "user" whose content is a list of items.
UserLine(items) == JsonLine(Entry("user", Message("user", ListContent(items))))

\* Records of one item: a tool use or a tool result, with or without the error
\* flag, in an assistant record or in a user record.
RoleItems == {ToolUseItem("Bash", None), ToolUseItem("Read", "a.py"),
              ResultItem(TRUE), ResultItem(FALSE)}
RoleLines ==
  {AssistantLine(<<item>>) : item \in RoleItems} \cup {UserLine(<<item>>) : item \in RoleItems}

\* extract_tool_events(file_path) on the session file.
ExtractFile ==
  /\ xpc = "idle"
  /\ files # <<>>
  /\ LET r == extract_tool_events(parse_jsonl(files[1].lines, Len(files[1].lines)))
     IN /\ events' = r.events
        /\ xpc' = IF r.kind = "raised" THEN "raised" ELSE "done"
  /\ UNCHANGED <<dpc, cycles, corrections, retries, loopVars, anaVars, catVars,
                 runVars, selVars, delVars, nread, current_model, models_read,
                 ipos, origins, pending, success_writes>>

InitRoles ==
  /\ \E m \in 0..MaxRoleLines :
       \E ls \in [1..m -> RoleLines] : files = <<SessionFile(ls)>>
  /\ RunStart
NextRoles == AnalyzeSession \/ ExtractFile
SpecRoles == InitRoles /\ [][NextRoles]_vars

----------------------------------------------------------------------------
(* The while loop of find_execute_explore_modify_cycles, one iteration a step *)

\* cycles = []; i = 0
ScanStart ==
  /\ dpc = "input"
  /\ dpc' = "scan"
  /\ scan' = [i |-> 0, cycles |-> <<>>]
  /\ iterations' = 0
  /\ UNCHANGED <<events, cycles, corrections, retries, anaVars, catVars, extVars>>

\* One iteration of while i < len(events) - 2.
ScanStep ==
  /\ dpc = "scan"
  /\ scan.i < Len(events) - 2
  /\ scan' = EEMStep(events, scan)
  /\ iterations' = iterations + 1
  /\ UNCHANGED <<events, dpc, cycles, corrections, retries, anaVars, catVars, extVars>>

\* The guard of the while loop is false: return cycles.
ScanReturn ==
  /\ dpc = "scan"
  /\ ~(scan.i < Len(events) - 2)
  /\ cycles' = scan.cycles
  /\ dpc' = "done"
  /\ UNCHANGED <<events, corrections, retries, loopVars, anaVars, catVars, extVars>>

NextScan == ScanStart \/ ScanStep \/ ScanReturn

\* The call on every list of up to MaxEEMLen events; the statements of the
\* function run one after the other, none waits for anything.
SpecScan == InitEEM /\ [][NextScan]_vars /\ WF_vars(NextScan)

----------------------------------------------------------------------------
(* Properties of parse_jsonl and run() *)

Decodes(line) == line.k = "json"

\* The records of the lines that decode, in file order.
GoodRecords(lines) ==
  LET good == SelectSeq(lines, Decodes)
  IN [x \in 1..Len(good) |-> good[x].value]

\* C11: parse_jsonl yields exactly the records of the lines that decode, in
\* file order, whatever lines fail between them, and the counters of the
\* session are those of the same file without its bad lines.
C11_BadLinesSkipped ==
  (fidx = 1 /\ apc # "raised") =>
    /\ entries = GoodRecords(files[1].lines)
    /\ session_results[1] =
         analyze_session(ZeroMetrics, GoodRecords(files[1].lines)).session_metrics

\* C12: no content of a file makes run() stop: an exception never leaves the
\* loop over the files.
C12_CorruptFileIsolated == apc # "raised"

\* Pointwise sum of the dicts analyze_session returned, under the names of
\* the corpus counters.
RECURSIVE SumSessions(_)
SumSessions(rs) ==
  IF rs = <<>> THEN ZeroMetrics
  ELSE LET s == SumSessions(Tail(rs))
           h == Head(rs)
       IN [total_tool_uses |-> s.total_tool_uses + h.tool_uses,
           tool_errors |-> s.tool_errors + h.tool_errors,
           bash_failures |-> s.bash_failures + h.bash_failures,
           bash_retries |-> s.bash_retries + h.bash_retries,
           consecutive_edits_same_file |->
             s.consecutive_edits_same_file + h.consecutive_edits,
           user_rejection_messages |-> s.user_rejection_messages + h.user_rejections,
           total_user_messages |-> s.total_user_messages + h.user_messages]

\* The orders in which n files can be processed.
Perms(n) == {p \in [1..n -> 1..n] : \A x, y \in 1..n : p[x] = p[y] => x = y}

\* The corpus counters after the files fs were processed in their order,
\* starting from the counters m.
RECURSIVE RunCounters(_, _)
RunCounters(m, fs) ==
  IF fs = <<>> THEN m
  ELSE IF Head(fs).agent THEN RunCounters(m, Tail(fs))
  ELSE RunCounters(
         analyze_session(m, parse_jsonl(Head(fs).lines, Len(Head(fs).lines))).metrics,
         Tail(fs))

\* C13: after run(), the corpus counters are the pointwise sum of the
\* counters analyze_session returned on this analyzer, and they are the same
\* for every order in which the files of the run are processed.
C13_SumOrderIndependent ==
  apc = "reported" =>
    LET before == SubSeq(session_results, 1, Len(session_results) - sessions)
    IN /\ report.raw_metrics = SumSessions(session_results)
       /\ \A p \in Perms(Len(files)) :
            RunCounters(SumSessions(before), [x \in 1..Len(files) |-> files[p[x]]])
              = report.raw_metrics

\* Two different sessions were analysed, the first left a Bash failure
\* pending, the second starts with a Bash command; the report is there.
C13_Witness ==
  /\ apc = "reported"
  /\ Len(files) = 2
  /\ files[1] = SessionFile(<<LAsstBashErr>>)
  /\ files[2] = SessionFile(<<LAsstBash>>)
  /\ Len(session_results) = 2
  /\ report.raw_metrics.total_tool_uses = 2
  /\ report.raw_metrics.bash_retries = 0

\* C14: a second run() over the same files returns the counters, rates and
\* scores of the first, on a new analyzer and on the same analyzer.
C14_RunTwiceSame ==
  (apc = "reported" /\ prev_report # NoReport) => report = prev_report

----------------------------------------------------------------------------
(* Properties of the rates and of the delegation score *)

BucketTotal == SumValues(category_counts, DOMAIN category_counts)

\* C15: a rate whose denominator is 0 is 0, also with a positive numerator,
\* and compute_delegation_score returns 0 for a bucket whose total is 0;
\* neither raises a division fault.
C15_ZeroDenominator ==
  /\ report.kind \in {"none", "report"}
  /\ delegation_score.kind \in {"none", "float"}
  /\ (report.kind = "report" /\ report.raw_metrics.total_tool_uses = 0) =>
       /\ report.rates.tool_error_rate = 0
       /\ report.rates.bash_failure_rate = 0
       /\ report.rates.correction_rate = 0
  /\ (report.kind = "report" /\ report.raw_metrics.total_user_messages = 0) =>
       report.rates.user_rejection_rate = 0
  /\ (delegation_score.kind # "none" /\ BucketTotal = 0) =>
       delegation_score = FloatResult(FZero)

\* Both computations ran on a zero denominator, tool errors were counted
\* without any tool use.
C15_Witness ==
  /\ report.kind = "report"
  /\ report.raw_metrics.total_tool_uses = 0
  /\ report.raw_metrics.tool_errors > 0
  /\ report.rates.tool_error_rate = 0
  /\ delegation_score = FloatResult(FZero)

\* Twice the weight of the spec's table, 1 for a category it does not hold.
TwiceWeight(category) ==
  CASE category \in {"exploration", "planning"} -> 2
    [] category = "interaction" -> 0
    [] OTHER -> 1

RECURSIVE TwiceWeighted(_, _)
TwiceWeighted(cc, keys) ==
  IF keys = {} THEN 0
  ELSE LET c == CHOOSE x \in keys : TRUE
       IN cc[c] * TwiceWeight(c) + TwiceWeighted(cc, keys \ {c})

\* A float is at most 1.
FLeOne(x) == x = FZero \/ x = FOne \/ x.e + MantissaBits <= 0

\* C17: for a bucket with positive total the score is sum(count * weight) /
\* total (as a float: the float nearest to that value), it lies in [0, 1],
\* it is 1 when every use is exploration or planning and 0 when every use is
\* interaction.
C17_DelegationScore ==
  (delegation_score.kind # "none" /\ BucketTotal > 0) =>
    LET v == delegation_score.value
        used == {c \in DOMAIN category_counts : category_counts[c] > 0}
    IN /\ delegation_score.kind = "float"
       /\ v = FDivInts(TwiceWeighted(category_counts, DOMAIN category_counts),
                       2 * BucketTotal)
       /\ FLeOne(v)
       /\ used \subseteq {"exploration", "planning"} => v = FOne
       /\ used = {"interaction"} => v = FZero

\* The counters give a rate or a composite score outside [0, 1].
OutOfRange(m) ==
  \/ ~InUnit(error_rate(m))
  \/ ~InUnit(bash_failure_rate(m))
  \/ ~InUnit(correction_rate(m))
  \/ ~InUnit(user_rejection_rate(m))
  \/ ~InUnit(verification_score(m))
  \/ ~InUnit(endorsement_proxy(verification_score(m)))

\* C16: when the counters give a rate or a composite score below 0 or above
\* 1, report generation stops with a fatal error: no report made from these
\* counters is returned (and no value of it is clamped into the interval).
C16_OutOfRangeIsFatal ==
  (apc = "reported" /\ OutOfRange(metrics)) => report.kind = "fatal"

-----------------------------------------------------------------------------
(* Properties of extract_tool_events *)

\* A tool_result item is the next item of the loop.
AtToolResult ==
  /\ xpc = "extract"
  /\ pending # <<>>
  /\ Head(pending).isdict
  /\ Head(pending).type = "tool_result"

\* C19: processing a tool_result item sets the success of the last appended
\* event to (not is_error) and leaves every earlier event and every other
\* field of the last event as they are; with no event appended yet the item
\* is ignored and the list stays empty.
C19_ToolResultFrame ==
  [][AtToolResult =>
       /\ Len(events') = Len(events)
       /\ \A i \in 1..(Len(events) - 1) : events'[i] = events[i]
       /\ events # <<>> =>
            /\ events'[Len(events)].success = ~Head(pending).is_error
            /\ events'[Len(events)] =
                 [events[Len(events)] EXCEPT !.success = ~Head(pending).is_error]]_vars

\* C19 witness: the session is over; an error result was set on the first of
\* two events, then a result without error on the second, the first one kept
\* its success and both kept their other fields.
C19_Witness ==
  /\ xpc = "done"
  /\ Len(events) = 2
  /\ events[1] = ToolEvent("Edit", "a.py", FALSE)
  /\ events[2] = ToolEvent("Bash", None, TRUE)
  /\ success_writes = <<1, 1>>

\* C20: in the extraction of one session the success of an event is
\* overwritten at most once after its creation, and only while the event is
\* the last one: once another invocation has been appended it never changes.
C20_SuccessWrittenOnce ==
  /\ [](\A i \in 1..Len(success_writes) : success_writes[i] <= 1)
  /\ [][\A i \in 1..(Len(events) - 1) :
          /\ events'[i].success = events[i].success
          /\ success_writes'[i] = success_writes[i]]_vars

-----------------------------------------------------------------------------
(* Properties of MicroExampleExtractor.run *)

\* How often a sequence occurs in a list.
Count(s, seqs) == Cardinality({x \in DOMAIN seqs : seqs[x] = s})

\* The sequences of a pattern type that run() found and did not select.
NonSelected(pattern) ==
  {t \in Range(ByPattern(all_sequences, pattern)) :
     Count(t, ByPattern(all_sequences, pattern))
       > Count(t, results.selected_examples[pattern])}

\* C18: after run() every pattern type has at most 5 selected examples, taken
\* from the sequences found for it, every selected example has at least as
\* many events as every sequence of its type that was not selected, and
\* total_sequences is the sum of the by_pattern counts.
C18_TopExamples ==
  rpc = "done" =>
    /\ \A p \in DOMAIN results.selected_examples :
         LET sel == results.selected_examples[p]
         IN /\ Len(sel) <= 5
            /\ \A s \in Range(sel) : Count(s, sel) <= Count(s, ByPattern(all_sequences, p))
            /\ \A s \in Range(sel) : \A t \in NonSelected(p) :
                 Len(s.events) >= Len(t.events)
    /\ results.total_sequences = SumGet(results.by_pattern, DOMAIN results.by_pattern)

\* C18 witness: six cycles were found in three sessions (and corrections
\* too), five of them are selected, one of five events among them, and a
\* cycle of three events is left out.
C18_Witness ==
  /\ rpc = "done"
  /\ {"execute_explore_modify", "correction_sequence"} \subseteq DOMAIN results.by_pattern
  /\ results.by_pattern["execute_explore_modify"] = 6
  /\ Len(results.selected_examples["execute_explore_modify"]) = 5
  /\ Len(results.selected_examples["execute_explore_modify"][1].events) = 5
  /\ \E t \in NonSelected("execute_explore_modify") : Len(t.events) = 3

\* The model of the latest of the first r records that carried a non-empty
\* model, None when there is none.
LatestModel(r) ==
  LET carrying == {x \in 1..r : Truthy(models_read[x])}
  IN IF carrying = {} THEN None
     ELSE models_read[CHOOSE x \in carrying : \A y \in carrying : y <= x]

\* One origin lies before the other in the file.
Before(a, b) == a[1] < b[1] \/ (a[1] = b[1] /\ a[2] < b[2])

\* C21: the model of every emitted ToolEvent is the model field of the
\* latest record, at or before the record holding the invocation, that
\* carried a non-empty model (None if there is none); a record without a
\* model leaves current_model as it is; the events are in the order of the
\* records and of the items in them.
C21_StickyModel ==
  /\ Len(origins) = Len(events)
  /\ \A i \in 1..Len(events) : events[i].model = LatestModel(origins[i][1])
  /\ pending = <<>> => current_model = LatestModel(nread)
  /\ \A i \in 1..(Len(events) - 1) : Before(origins[i], origins[i + 1])

\* C21 witness: a record set the model, a second one changed it, a third
\* one without a model kept it; each record held a tool use.
C21_Witness ==
  /\ xpc = "done"
  /\ models_read = <<"opus", "sonnet", None>>
  /\ Len(events) = 3
  /\ events[1].model = "opus"
  /\ events[2].model = "sonnet"
  /\ events[3].model = "sonnet"

-----------------------------------------------------------------------------
(* Properties of analyze_session *)

\* The tool use of a line that holds one.
UseOf(line) == line.value.message.content.items[1]

\* The line is a modification tool use / one with a file path.
IsModification(line) == UseOf(line).name \in {"Edit", "Write", "MultiEdit"}
HasPath(line) == UseOf(line).file_path # None

\* The tool uses of lines that follow a modification of the same path among
\* the 5 tool uses before them.
WithinFiveToolUses(lines) ==
  {i \in 1..Len(lines) :
     /\ IsModification(lines[i]) /\ HasPath(lines[i])
     /\ \E j \in 1..(i - 1) :
          /\ i - j <= 5
          /\ IsModification(lines[j])
          /\ UseOf(lines[j]).file_path = UseOf(lines[i]).file_path}

\* The tool uses of lines that follow a modification of the same path among
\* the 5 modification events before them.
WithinFiveModifications(lines) ==
  {i \in 1..Len(lines) :
     /\ IsModification(lines[i]) /\ HasPath(lines[i])
     /\ \E j \in 1..(i - 1) :
          /\ IsModification(lines[j])
          /\ Cardinality({x \in j..(i - 1) : IsModification(lines[x])}) <= 5
          /\ UseOf(lines[j]).file_path = UseOf(lines[i]).file_path}

\* C22 (amended): an Edit/Write/MultiEdit tool use with a file path is
\* counted as an immediate correction exactly when one of the 5 tool uses
\* before it in the session, of whatever tool, was a modification of the same
\* file path; each such tool use is counted once.
C22_WithinFiveToolUses ==
  fidx = 1 =>
    /\ metrics.consecutive_edits_same_file
         = Cardinality(WithinFiveToolUses(files[1].lines))
    /\ session_metrics.consecutive_edits = metrics.consecutive_edits_same_file

\* C22 as stated: the tool use is counted exactly when the same file path
\* was the target of one of the previous 5 modification events, however many
\* other tool uses lie in between.
C22_WithinFiveModifications ==
  fidx = 1 =>
    metrics.consecutive_edits_same_file
      = Cardinality(WithinFiveModifications(files[1].lines))

\* C22 witness: an edit, four other tool uses, two edits of the same file:
\* both are counted, once each.
C22_Witness ==
  /\ apc = "reported"
  /\ files[1].lines = <<Use("Edit", "a.py"), Use("Read", "a.py"), Use("Read", "a.py"),
                        Use("MultiEdit", None), Use("Write", "b.py"),
                        Use("Edit", "a.py"), Use("Edit", "a.py")>>
  /\ metrics.consecutive_edits_same_file = 2

\* The words of the text blocks of a content list, in lower case.
WordsOf(content) ==
  LET text == extract_text(content) IN [x \in 1..Len(text) |-> Lower(text[x])]

\* The rejection patterns found in the text of a content list.
PatternsIn(content) ==
  {p \in 1..Len(REJECTION_KEYWORDS) : Search(REJECTION_KEYWORDS[p], WordsOf(content))}

\* C23: a user record adds exactly 1 to the user-message counters, and 1 to
\* the rejection counters if at least one pattern matches its text, 0 if
\* none does (1 also when several match); it changes no tool counter, no
\* local of the tool tracking and no event list.
C23_UserRecordFrame ==
  [][\A content \in UserContents :
       UserRecord(content) =>
         LET add == IF PatternsIn(content) # {} THEN 1 ELSE 0
         IN /\ metrics' = [metrics EXCEPT !.total_user_messages = @ + 1,
                                          !.user_rejection_messages = @ + add]
            /\ session_metrics' = [session_metrics EXCEPT !.user_messages = @ + 1,
                                                          !.user_rejections = @ + add]
            /\ UNCHANGED <<recent_tools, recent_bash_failed, detVars>>]_vars

\* Some user content matches more than one pattern, some none.
SeveralPatterns == \E content \in UserContents : Cardinality(PatternsIn(content)) > 1

\* C23 witness: two user messages were counted in a session, one of them as
\* a rejection and once only, though a message can match two patterns.
C23_Witness ==
  /\ SeveralPatterns
  /\ apc = "session"
  /\ session_metrics.user_messages = 2
  /\ session_metrics.user_rejections = 1
  /\ session_metrics.tool_uses = 0

----------------------------------------------------------------------------
(* Order of the matches of find_execute_explore_modify_cycles *)

\* C24: find_execute_explore_modify_cycles emits its matches in strictly
\* increasing start order; after the match (i, k+1) every later match starts at
\* an index >= k, and in fact at or after k+1, the end of the previous match:
\* no event before k is a cycle start again.
C24_StartsIncrease ==
  dpc = "done" =>
    \A x \in 1..(Len(cycles) - 1) :
      LET k == cycles[x][2] - 1
      IN /\ cycles[x][1] < cycles[x + 1][1]
         /\ cycles[x + 1][1] >= k
         /\ cycles[x + 1][1] >= cycles[x][2]
         /\ \A y \in (x + 1)..Len(cycles) : cycles[y][1] >= k

\* C24 witness: an execution event lies inside the first match and the second
\* match starts right at the end of the first.
C24_Witness ==
  /\ dpc = "done" /\ Len(cycles) >= 2
  /\ cycles[2][1] = cycles[1][2]
  /\ \E h \in (cycles[1][1] + 1)..(cycles[1][2] - 1) : Cat(h) = "execution"

----------------------------------------------------------------------------
(* Bounds of the matches of the three detectors *)

\* Every match (start, end) of the list lies in the event list and has a span
\* end - start between lo and hi.
SpansWithin(ms, lo, hi) ==
  \A x \in 1..Len(ms) :
    /\ 0 <= ms[x][1] /\ ms[x][1] < ms[x][2] /\ ms[x][2] <= Len(events)
    /\ lo <= ms[x][2] - ms[x][1] /\ ms[x][2] - ms[x][1] <= hi

\* C25: every match (start, end) of the three detectors satisfies
\* 0 <= start < end <= len(events), with a span between 3 and 9 for
\* execute-explore-modify, between 2 and 11 for correction sequences and
\* between 2 and 5 for bash retries.
C25_MatchSpans ==
  dpc = "done" =>
    /\ SpansWithin(cycles, 3, 9)
    /\ SpansWithin(corrections, 2, 11)
    /\ SpansWithin(retries, 2, 5)

\* C25 witness: a cycle of the widest span, 9 events, in a session where the
\* three lists of matches were computed.
C25_Witness ==
  /\ dpc = "done"
  /\ \E x \in 1..Len(cycles) : cycles[x][2] - cycles[x][1] = 9

----------------------------------------------------------------------------
(* Order of the analyzer's failure counters *)

\* C26: after any records of any number of sessions, the counters satisfy
\* bash_retries <= bash_failures <= tool_errors, in self.metrics and in the
\* metrics of the current session; a retry is counted only while a Bash
\* failure of the session is pending, and counting it clears the flag.
C26_RetriesFailuresErrors ==
  /\ metrics.bash_retries <= metrics.bash_failures
  /\ metrics.bash_failures <= metrics.tool_errors
  /\ session_metrics.bash_retries <= session_metrics.bash_failures
  /\ session_metrics.bash_failures <= session_metrics.tool_errors
  /\ recent_bash_failed => session_metrics.bash_retries < session_metrics.bash_failures

\* C26 witness: a Bash failure and its retry in one session, then an error
\* that is no Bash failure in a later session.
C26_Witness ==
  /\ sessions >= 1
  /\ metrics.bash_retries = 1
  /\ metrics.bash_failures = 1
  /\ metrics.tool_errors = 2
  /\ session_metrics.tool_errors = 1
  /\ session_metrics.bash_failures = 0

----------------------------------------------------------------------------
(* Retries counted by analyze_session *)

\* The line is a Bash tool use / any tool use / a tool_result with is_error.
IsBashUse(line) == UseOf(line).type = "tool_use" /\ UseOf(line).name = "Bash"
IsToolUse(line) == UseOf(line).type = "tool_use"
IsErrorResult(line) == UseOf(line).type = "tool_result" /\ UseOf(line).is_error

\* The error results of the session that follow a Bash use with no other
\* tool use in between.
BashFailures(lines) ==
  {j \in 1..Len(lines) :
     /\ IsErrorResult(lines[j])
     /\ \E u \in 1..(j - 1) :
          /\ IsBashUse(lines[u])
          /\ \A h \in (u + 1)..(j - 1) : ~IsToolUse(lines[h])}

\* The Bash uses of the session that follow a Bash failure with no Bash use in
\* between, at any distance.
RetriedUses(lines) ==
  {i \in 1..Len(lines) :
     /\ IsBashUse(lines[i])
     /\ \E j \in BashFailures(lines) :
          j < i /\ \A h \in (j + 1)..(i - 1) : ~IsBashUse(lines[h])}

RECURSIVE RetriesOfFiles(_)
RetriesOfFiles(fs) ==
  IF fs = <<>> THEN 0
  ELSE Cardinality(RetriedUses(Head(fs).lines)) + RetriesOfFiles(Tail(fs))

\* C27: bash_retries has no distance window: a Bash use is counted as one retry
\* exactly when a Bash failure was recorded earlier in its session with no
\* Bash use since, however many other tool uses lie in between; several
\* failures before it count once, and a failure pending at the end of a
\* session makes no Bash use of the next session a retry.
C27_RetriesWithoutWindow ==
  /\ \A f \in 1..Len(session_results) :
       session_results[f].bash_retries = Cardinality(RetriedUses(files[f].lines))
  /\ metrics.bash_retries = RetriesOfFiles(Take(files, fidx))

\* C27 witness: two failures of one Bash use, four other tool uses, the Bash
\* use that is the retry and fails too; the next session starts with a Bash
\* use.  One retry in all.
C27_Witness ==
  /\ apc = "reported"
  /\ files = << SessionFile(<<Use("Bash", None), ErrorLine, ErrorLine,
                              Use("Read", "a.py"), Use("Read", "a.py"),
                              Use("Read", "a.py"), Use("Read", "a.py"),
                              Use("Bash", None), ErrorLine>>),
                SessionFile(<<Use("Bash", None)>>) >>
  /\ metrics.bash_retries = 1
  /\ metrics.bash_failures = 3

----------------------------------------------------------------------------
(* Tool results in user records: analyze_session against extract_tool_events *)

\* The records of the lines with role "assistant", and the lines themselves.
IsAssistant(line) == line.value.message.role = "assistant"
AssistantLines(lines) == SelectSeq(lines, IsAssistant)
AssistantEntries(lines) == parse_jsonl(AssistantLines(lines), Len(lines))

\* The tool uses among the lines, and the tool results that follow the tool
\* use at p with no tool use in between.
ToolUseLines(lines) == {p \in 1..Len(lines) : IsToolUse(lines[p])}
ResultsOf(lines, p) ==
  {j \in (p + 1)..Len(lines) :
     /\ UseOf(lines[j]).type = "tool_result"
     /\ \A h \in (p + 1)..j : ~IsToolUse(lines[h])}

\* The success flag extract_tool_events leaves on the event of the tool use at
\* line p: that of its last tool result, whatever the role of the record.
SuccessOf(lines, p) ==
  LET rs == ResultsOf(lines, p)
  IN rs = {} \/ ~UseOf(lines[CHOOSE j \in rs : \A h \in rs : h <= j]).is_error

\* C28: analyze_session changes tool_errors and bash_failures only for the
\* tool_result items of assistant records: the tool counters and the pending
\* flag are what the assistant records alone give, so an error tool_result in
\* a user record changes none of total_tool_uses, tool_errors, bash_failures,
\* bash_retries and recent_bash_failed; extract_tool_events applies the tool
\* results of records of any role to the last event.
C28_ResultsByRole ==
  LET lines == files[1].lines
      asst  == AssistantLines(lines)
      all   == analyze_session(ZeroMetrics, parse_jsonl(lines, Len(lines)))
      only  == analyze_session(ZeroMetrics, AssistantEntries(lines))
      uses  == SortedSeq(ToolUseLines(lines))
  IN /\ fidx = 1 =>
          /\ metrics.tool_errors
               = Cardinality({j \in 1..Len(asst) : IsErrorResult(asst[j])})
          /\ metrics.bash_failures = Cardinality(BashFailures(asst))
          /\ metrics.bash_retries = Cardinality(RetriedUses(asst))
          /\ metrics.total_tool_uses
               = Cardinality({j \in 1..Len(asst) : IsToolUse(asst[j])})
          /\ all.recent_bash_failed = only.recent_bash_failed
     /\ xpc = "done" =>
          /\ Len(events) = Len(uses)
          /\ \A e \in 1..Len(events) : events[e].success = SuccessOf(lines, uses[e])

\* C28 witness: a Bash use of an assistant record, then a user record with an
\* error tool_result: the analyzer counted one tool use and no error, the
\* extractor marked the event as failed.
C28_Witness ==
  /\ fidx = 1 /\ xpc = "done"
  /\ Len(files[1].lines) >= 2
  /\ files[1].lines[1] = AssistantLine(<<ToolUseItem("Bash", None)>>)
  /\ files[1].lines[2] = UserLine(<<ResultItem(TRUE)>>)
  /\ metrics.total_tool_uses = 1 /\ metrics.tool_errors = 0
  /\ metrics.bash_failures = 0
  /\ events[1].success = FALSE

----------------------------------------------------------------------------
(* The two interpretation labels of one report *)

\* The label of the endorsement band that goes with each verification band.
LabelPairs == {
  <<"Minimal verification behavior - high automatic endorsement",
    "Very high automatic endorsement">>,
  <<"Low verification behavior - substantial automatic endorsement",
    "High automatic endorsement">>,
  <<"Moderate verification behavior - mixed endorsement pattern",
    "Moderate automatic endorsement">>,
  <<"High verification behavior - skeptical endorsement pattern",
    "Low automatic endorsement">> }

----------------------------------------------------------------------------
(* Termination of find_execute_explore_modify_cycles *)

\* C30: find_execute_explore_modify_cycles terminates on every finite event
\* list: each iteration of the while loop increases the scan index i, the
\* iteration of a match included, the loop runs at most len(events) times, and
\* the function returns the cycles the loop has found.
C30_ScanTerminates ==
  /\ [][iterations' # iterations =>
          (iterations' = iterations + 1 /\ scan'.i > scan.i)]_vars
  /\ [](iterations <= Len(events) /\ scan.i <= Len(events))
  /\ [](dpc = "done" => cycles = find_execute_explore_modify_cycles(events))
  /\ <>(dpc = "done")

\* C30 witness: the function has returned after a match moved the index past
\* several events: fewer iterations than indices scanned.
C30_Witness ==
  /\ dpc = "done"
  /\ cycles # <<>>
  /\ iterations >= 2
  /\ iterations < scan.i

====
